---- MODULE Spec2Model ----
(***************************************************************************)
(* Task-management backend (src/backend/server.ts): the task store, the    *)
(* Express route table and the task handlers, as a state machine.          *)
(*                                                                         *)
(* Text columns are sequences of one-character strings, so that LIKE and   *)
(* ILIKE patterns, prefixes and lengths are computed as the database       *)
(* computes them.  A timestamp column is TEXT: a stored instant keeps the  *)
(* format it was written in (with or without the ".000" millisecond part), *)
(* and SQL compares the text while JavaScript compares the parsed instant. *)
(* Time is counted in seconds since 2023-10-01T00:00:00Z.                  *)
(*                                                                         *)
(* `pool.connect()` of the handlers is taken to hand out a client of the   *)
(* same store as `db` (the tests import `pool` from the server).           *)
(***************************************************************************)
EXTENDS Integers, Sequences, FiniteSets, TLC

\* ----------------------------------------------------------------- bounds
MaxRequests == 2        \* requests served in one behaviour
MaxTicks == 2           \* clock advances in one behaviour
MaxNewTasks == 1        \* task ids uuidv4() hands out in one behaviour
MaxListLen == 2         \* ids in one bulk or reorder request
StartTime == 8000000    \* the clock when the server has started (after the seed instants)
MaxCalls == 3           \* auth requests taken in in one behaviour
MaxTokens == 2          \* reset tokens uuidv4() hands out in one behaviour
MaxAuthTicks == 2       \* clock advances in one behaviour of the auth requests

\* ------------------------------------------------------ program constants
MaxInt32 == 2147483647  \* INTEGER column order_index
DefaultLimit == 10
MinLimit == 1
MaxLimit == 1000
TitleMax == 255
DescriptionMax == 1000
CategoryMax == 100
TagsMax == 500
ShareSeconds == 30 * 24 * 60 * 60
TickStep == ShareSeconds \div 2

\* ------------------------------------------------------------------- text
Null == "<null>"            \* SQL NULL / JS null in a string-valued column
NullText == <<"<null>">>    \* SQL NULL / JS null in a text column kept as characters

UpperAlpha == <<"A","B","C","D","E","F","G","H","I","J","K","L","M",
                "N","O","P","Q","R","S","T","U","V","W","X","Y","Z">>
LowerAlpha == <<"a","b","c","d","e","f","g","h","i","j","k","l","m",
                "n","o","p","q","r","s","t","u","v","w","x","y","z">>

UpperToLower ==
    [c \in {UpperAlpha[i] : i \in 1..Len(UpperAlpha)} |->
        LowerAlpha[CHOOSE i \in 1..Len(UpperAlpha) : UpperAlpha[i] = c]]

LowerChar(c) == IF c \in DOMAIN UpperToLower THEN UpperToLower[c] ELSE c

Lower(s) == [i \in 1..Len(s) |-> LowerChar(s[i])]

\* SQL LIKE on s from position i against pattern p from position j:
\* % is any run of characters, _ is any one character, \ takes the next one literally
RECURSIVE LikeAt(_, _, _, _)
LikeAt(s, i, p, j) ==
    IF j > Len(p) THEN i > Len(s)
    ELSE IF p[j] = "%"
         THEN j = Len(p) \/ LikeAt(s, i, p, j + 1) \/ (i <= Len(s) /\ LikeAt(s, i + 1, p, j))
    ELSE IF p[j] = "_" THEN i <= Len(s) /\ LikeAt(s, i + 1, p, j + 1)
    ELSE IF p[j] = "\\" /\ j < Len(p)
         THEN i <= Len(s) /\ s[i] = p[j + 1] /\ LikeAt(s, i + 1, p, j + 2)
    ELSE i <= Len(s) /\ s[i] = p[j] /\ LikeAt(s, i + 1, p, j + 1)

Like(s, p) == LikeAt(s, 1, p, 1)

\* column LIKE pattern / column ILIKE pattern; NULL matches nothing
SqlLike(col, p) == col # NullText /\ Like(col, p)
SqlILike(col, p) == col # NullText /\ Like(Lower(col), Lower(p))

\* `%${x}%`
Wrap(x) == <<"%">> \o x \o <<"%">>

CopyOf == <<"C","o","p","y"," ","o","f"," ">>

\* ------------------------------------------------------------- timestamps
\* frac: the text carries the millisecond part, as Date.toISOString() writes it
Ts(t, frac) == [null |-> FALSE, t |-> t, frac |-> frac]
NullTs == [null |-> TRUE, t |-> 0, frac |-> FALSE]

ToISOString(t) == Ts(t, TRUE)
\* new Date(text).getTime()
ParseDate(ts) == ts.t

\* text > text on two ISO texts: equal up to the seconds, then "Z" > "."
TextGT(a, b) == a.t > b.t \/ (a.t = b.t /\ ~a.frac /\ b.frac)
\* column > parameter in SQL; NULL > x is not true
SqlTextGT(col, param) == ~col.null /\ TextGT(col, param)

\* ------------------------------------------------------------------ store
Users == {"user_001", "user_002", "user_003"}
SeedIds == {"task_001", "task_002", "task_003"}
NewIds == <<"uuid_1", "uuid_2", "uuid_3">>
Anonymous == "anonymous"

Statuses == {"incomplete", "completed", "archived"}
Priorities == {"low", "medium", "high"}

SeedTasks ==
    [id \in SeedIds |->
       CASE id = "task_001" ->
              [task_id |-> "task_001", user_id |-> "user_001",
               title |-> <<"C","o","m","p","l","e","t","e"," ","p","r","o","j","e","c","t"," ","r","e","p","o","r","t">>,
               description |-> <<"W","r","i","t","e"," ","a","n","d"," ","f","i","n","a","l","i","z","e"," ","t","h","e"," ","q","u","a","r","t","e","r","l","y"," ","p","r","o","j","e","c","t"," ","r","e","p","o","r","t"," ","w","i","t","h"," ","c","h","a","r","t","s">>,
               due_date |-> Ts(1270800, FALSE), priority |-> "high", category |-> "Work",
               tags |-> <<"r","e","p","o","r","t",",","u","r","g","e","n","t",",","q","4">>,
               status |-> "incomplete", order_index |-> 1, share_expires_at |-> NullTs,
               created_at |-> Ts(37800, FALSE), updated_at |-> Ts(37800, FALSE)]
         [] id = "task_002" ->
              [task_id |-> "task_002", user_id |-> "user_001",
               title |-> <<"G","r","o","c","e","r","y"," ","s","h","o","p","p","i","n","g">>,
               description |-> <<"B","u","y"," ","m","i","l","k",","," ","b","r","e","a","d",","," ","a","n","d"," ","e","g","g","s"," ","f","r","o","m"," ","t","h","e"," ","s","t","o","r","e">>,
               due_date |-> Ts(583200, FALSE), priority |-> "low", category |-> "Personal",
               tags |-> <<"s","h","o","p","p","i","n","g",",","e","s","s","e","n","t","i","a","l","s">>,
               status |-> "incomplete", order_index |-> 2, share_expires_at |-> Ts(669600, FALSE),
               created_at |-> Ts(39600, FALSE), updated_at |-> Ts(39600, FALSE)]
         [] OTHER ->
              [task_id |-> "task_003", user_id |-> "user_003",
               title |-> <<"T","e","s","t"," ","t","a","s","k">>,
               description |-> <<"A"," ","t","e","s","t"," ","t","a","s","k"," ","f","o","r"," ","t","h","e"," ","t","e","s","t"," ","u","s","e","r">>,
               due_date |-> Ts(7992000, FALSE), priority |-> "medium", category |-> "Work",
               tags |-> <<"t","e","s","t">>,
               status |-> "incomplete", order_index |-> 1, share_expires_at |-> NullTs,
               created_at |-> Ts(226800, FALSE), updated_at |-> Ts(226800, FALSE)]]

\* predefined_categories TEXT NOT NULL DEFAULT '["Work", "Personal", "School", "Other"]'
DefaultCategories ==
    << <<"W","o","r","k">>, <<"P","e","r","s","o","n","a","l">>,
       <<"S","c","h","o","o","l">>, <<"O","t","h","e","r">> >>

\* INSERT INTO users ... (user_id, email, password_hash, name, created_at)
SeedUsers ==
    [user_001 |-> [user_id |-> "user_001",
                   email |-> <<"j","o","h","n",".","d","o","e","@","e","x","a","m","p","l","e",".","c","o","m">>,
                   password_hash |-> <<"p","a","s","s","w","o","r","d","1","2","3">>,
                   name |-> "John Doe",
                   predefined_categories |-> DefaultCategories, created_at |-> Ts(36000, FALSE)],
     user_002 |-> [user_id |-> "user_002",
                   email |-> <<"j","a","n","e",".","s","m","i","t","h","@","e","x","a","m","p","l","e",".","c","o","m">>,
                   password_hash |-> <<"p","a","s","s","w","o","r","d","4","5","6">>,
                   name |-> "Jane Smith",
                   predefined_categories |-> DefaultCategories, created_at |-> Ts(86400 + 43200, FALSE)],
     user_003 |-> [user_id |-> "user_003",
                   email |-> <<"t","e","s","t","@","e","x","a","m","p","l","e",".","c","o","m">>,
                   password_hash |-> <<"t","e","s","t","1","2","3">>,
                   name |-> "Test User",
                   predefined_categories |-> DefaultCategories, created_at |-> Ts(2 * 86400 + 50400, FALSE)]]

\* ------------------------------------------------ the browser: initial states
NullUser == [null |-> TRUE]

\* the store as create() builds it
InitialAuthenticationState ==
    [current_user |-> NullUser, auth_token |-> Null, is_guest |-> FALSE,
     is_authenticated |-> FALSE, is_loading |-> TRUE, error_message |-> Null]

\* logged_out is history: logout_user has completed and no login_user, register_user or
\* reset_password has succeeded since
InitialClient ==
    [store |-> InitialAuthenticationState, inflight |-> <<>>, logged_out |-> FALSE]

NoPending == [kind |-> "none"]
ClosedConfirm == [open |-> FALSE, type |-> "delete", task_id |-> Null, count |-> 0]

\* the component as its useState calls build it, a new guest session; chosen is
\* history: the button that opened the confirm modal; issued counts crypto.randomUUID()
\* calls and events the buttons pressed
InitialGuest ==
    [tasks_list |-> <<>>, selected_tasks |-> <<>>, loading |-> FALSE, pending |-> NoPending,
     confirm_modal |-> ClosedConfirm, limit_modal_open |-> FALSE, issued |-> 0,
     chosen |-> "none", events |-> 0]

VARIABLES
    tasks,      \* the tasks table: task_id -> row
    now,        \* the clock, Date.now() in seconds
    issued,     \* how many ids uuidv4() has handed out
    served,     \* how many requests have been served
    last,       \* the last request and its response
    users,      \* the users table: user_id -> row
    resets,     \* the password_resets table: a set of rows, reset_token the key
    calls,      \* the auth requests taken in so far, each with its locals and position
    client,     \* the browser's auth store and its actions awaiting a response
    guest       \* the state of the guest dashboard component

vars == <<tasks, now, issued, served, last, users, resets, calls, client, guest>>
serverVars == <<tasks, now, issued, served, last, users, resets, calls>>

NoBody == [none |-> TRUE]

Init ==
    /\ tasks = SeedTasks
    /\ now = StartTime
    /\ issued = 0
    /\ served = 0
    /\ last = [method |-> "NONE", path |-> <<>>, user |-> Anonymous, body |-> NoBody,
               handler |-> "none", status |-> 0, res |-> NoBody]
    /\ users = SeedUsers
    /\ resets = {}
    /\ calls = <<>>
    /\ client = InitialClient
    /\ guest = InitialGuest

Ids == DOMAIN tasks
Owned(u) == {id \in Ids : tasks[id].user_id = u}

\* uuidv4(): an id no task carries and none carried before
CanIssue == issued < MaxNewTasks /\ issued < Len(NewIds)
FreshId == NewIds[issued + 1]

Has(b, f) == f \in DOMAIN b


\* ------------------------------------------------------ requests, replies
Req(method, path, u, body) == [method |-> method, path |-> path, user |-> u, body |-> body]

Reply(req, handler, status, res) ==
    last' = [method |-> req.method, path |-> req.path, user |-> req.user,
             body |-> req.body, handler |-> handler, status |-> status, res |-> res]

\* createErrorResponse(message, null, code): the timestamp is left out
Err(code) == [success |-> FALSE, error_code |-> code]

Range(s) == {s[i] : i \in 1..Len(s)}

\* ---------------------------------------------------------- POST /api/tasks
UndefinedText == <<"<undefined>">>

\* req.body.f || null for a text field
TextOrNull(b, f) == IF Has(b, f) /\ b[f] # <<>> THEN b[f] ELSE NullText
\* req.body.f || null for a string field
StrOrNull(b, f) == IF Has(b, f) /\ b[f] # "" THEN b[f] ELSE Null
TsOrNull(b, f) == IF Has(b, f) THEN b[f] ELSE NullTs

ValidationData(u, b) ==
    [user_id |-> u,
     title |-> IF Has(b, "title") THEN b.title ELSE UndefinedText,
     description |-> TextOrNull(b, "description"),
     due_date |-> TsOrNull(b, "due_date"),
     priority |-> StrOrNull(b, "priority"),
     category |-> StrOrNull(b, "category"),
     tags |-> TextOrNull(b, "tags"),
     status |-> IF Has(b, "status") /\ b.status # "" THEN b.status ELSE "incomplete",
     order_index |-> IF Has(b, "order_index") THEN b.order_index ELSE 0,
     share_expires_at |-> TsOrNull(b, "share_expires_at")]

\* createTaskInputSchema.safeParse(validationData).success
CreateTaskInputValid(vd) ==
    /\ vd.title # UndefinedText /\ vd.title # NullText
    /\ Len(vd.title) >= 1 /\ Len(vd.title) <= TitleMax
    /\ vd.description = NullText \/ Len(vd.description) <= DescriptionMax
    /\ vd.priority = Null \/ vd.priority \in Priorities
    /\ vd.category = Null \/ (Len(vd.category) >= 1 /\ Len(vd.category) <= CategoryMax)
    /\ vd.tags = NullText \/ Len(vd.tags) <= TagsMax
    /\ vd.status \in Statuses
    /\ vd.order_index >= 0

\* SELECT MAX(order_index) FROM tasks WHERE user_id = u, -1 for COALESCE(NULL, -1)
MaxOrder(u) ==
    IF Owned(u) = {} THEN -1
    ELSE CHOOSE m \in {tasks[id].order_index : id \in Owned(u)} :
            \A id \in Owned(u) : tasks[id].order_index <= m

\* COALESCE(MAX(order_index), -1) + 1 on a 32-bit INTEGER raises "integer out of range"
NextOrderFails(u) == MaxOrder(u) = MaxInt32
NextOrder(u) == MaxOrder(u) + 1

\* let order_index = validationData.order_index; if (order_index === 0) ...
CreateNeedsNextOrder(vd) == vd.order_index = 0

CreatedRow(id, vd, order_index) ==
    [task_id |-> id, user_id |-> vd.user_id, title |-> vd.title,
     description |-> vd.description, due_date |-> vd.due_date, priority |-> vd.priority,
     category |-> vd.category, tags |-> vd.tags, status |-> vd.status,
     order_index |-> order_index, share_expires_at |-> vd.share_expires_at,
     created_at |-> ToISOString(now), updated_at |-> ToISOString(now)]

CreateTaskHandler(req) ==
    LET vd == ValidationData(req.user, req.body) IN
    IF ~CreateTaskInputValid(vd)
    THEN /\ Reply(req, "createTask", 400, Err("VALIDATION_ERROR"))
         /\ UNCHANGED <<tasks, issued>>
    ELSE IF CreateNeedsNextOrder(vd) /\ NextOrderFails(req.user)
    THEN /\ Reply(req, "createTask", 500, Err("INTERNAL_SERVER_ERROR"))
         /\ UNCHANGED <<tasks, issued>>
    ELSE /\ CanIssue
         /\ LET order_index == IF CreateNeedsNextOrder(vd) THEN NextOrder(req.user)
                                                           ELSE vd.order_index
                row == CreatedRow(FreshId, vd, order_index)
            IN /\ tasks' = (FreshId :> row) @@ tasks
               /\ issued' = issued + 1
               /\ Reply(req, "createTask", 201, row)

\* ------------------------------------------------- GET /api/tasks/:task_id
\* the row is looked up by task_id alone
OwnsTaskAnyOwner(u, id) == id \in Ids

\* SELECT ... WHERE task_id = $1 AND user_id = $2 finds a row
OwnsTask(u, id) == id \in Ids /\ tasks[id].user_id = u

GetTaskHandler(req, id) ==
    /\ UNCHANGED <<tasks, issued>>
    /\ IF ~OwnsTask(req.user, id)
       THEN Reply(req, "getTask", 404, Err("TASK_NOT_FOUND"))
       ELSE Reply(req, "getTask", 200, tasks[id])

\* ----------------------------------------------- PATCH /api/tasks/:task_id
AllowedFields == {"title", "description", "due_date", "priority", "category", "tags",
                  "status", "order_index", "share_expires_at"}

UpdateFields(b) == AllowedFields \cap DOMAIN b

\* NOT NULL columns reject a NULL
UpdateViolatesNotNull(b) ==
    \/ Has(b, "title") /\ b.title = NullText
    \/ Has(b, "status") /\ b.status = Null

UpdatedRow(row, b) ==
    [f \in DOMAIN row |->
        IF f \in UpdateFields(b) THEN b[f]
        ELSE IF f = "updated_at" THEN ToISOString(now)
        ELSE row[f]]

UpdateTaskHandler(req, id) ==
    /\ UNCHANGED issued
    /\ IF ~OwnsTask(req.user, id)
       THEN /\ Reply(req, "updateTask", 404, Err("TASK_NOT_FOUND"))
            /\ UNCHANGED tasks
       ELSE IF UpdateFields(req.body) = {}
       THEN /\ Reply(req, "updateTask", 400, Err("NO_UPDATE_FIELDS"))
            /\ UNCHANGED tasks
       ELSE IF UpdateViolatesNotNull(req.body)
       THEN /\ Reply(req, "updateTask", 500, Err("INTERNAL_SERVER_ERROR"))
            /\ UNCHANGED tasks
       ELSE /\ tasks' = [tasks EXCEPT ![id] = UpdatedRow(tasks[id], req.body)]
            /\ Reply(req, "updateTask", 200, UpdatedRow(tasks[id], req.body))

\* ---------------------------------------------- DELETE /api/tasks/:task_id
\* the rows left are renumbered 0, 1, ... per owner
WithoutCompacting(ids) ==
    [id \in Ids \ ids |->
        [tasks[id] EXCEPT !.order_index =
            Cardinality({o \in Ids \ ids : /\ tasks[o].user_id = tasks[id].user_id
                                           /\ tasks[o].order_index < tasks[id].order_index})]]

Without(ids) == [id \in Ids \ ids |-> tasks[id]]

DeleteTaskHandler(req, id) ==
    /\ UNCHANGED issued
    /\ IF ~OwnsTask(req.user, id)
       THEN /\ Reply(req, "deleteTask", 404, Err("TASK_NOT_FOUND"))
            /\ UNCHANGED tasks
       ELSE /\ tasks' = Without({id})
            /\ Reply(req, "deleteTask", 200, [message |-> "Task deleted successfully"])

\* ------------------------------------- POST /api/tasks/:task_id/duplicate
DuplicateTitle(title) == CopyOf \o title

DuplicateRow(id, u, original, order_index) ==
    [task_id |-> id, user_id |-> u, title |-> DuplicateTitle(original.title),
     description |-> original.description, due_date |-> original.due_date,
     priority |-> original.priority, category |-> original.category,
     tags |-> original.tags, status |-> "incomplete", order_index |-> order_index,
     share_expires_at |-> NullTs,
     created_at |-> ToISOString(now), updated_at |-> ToISOString(now)]

DuplicateTaskHandler(req, id) ==
    IF ~OwnsTask(req.user, id)
    THEN /\ Reply(req, "duplicateTask", 404, Err("TASK_NOT_FOUND"))
         /\ UNCHANGED <<tasks, issued>>
    ELSE IF NextOrderFails(req.user)
    THEN /\ Reply(req, "duplicateTask", 500, Err("INTERNAL_SERVER_ERROR"))
         /\ UNCHANGED <<tasks, issued>>
    ELSE /\ CanIssue
         /\ LET row == DuplicateRow(FreshId, req.user, tasks[id], NextOrder(req.user))
            IN /\ tasks' = (FreshId :> row) @@ tasks
               /\ issued' = issued + 1
               /\ Reply(req, "duplicateTask", 201, row)

\* --------------------------------- PATCH /api/tasks/:task_id/toggle-status
ToggleTargets == {"incomplete", "completed"}

\* only a missing status is refused
ToggleStatusInvalidWhenMissing(b) == ~Has(b, "status")

\* !status || !['incomplete', 'completed'].includes(status)
ToggleStatusInvalid(b) == ~Has(b, "status") \/ b.status = "" \/ b.status \notin ToggleTargets

ToggledRow(row, status) ==
    [row EXCEPT !.status = status, !.updated_at = ToISOString(now)]

ToggleStatusHandler(req, id) ==
    /\ UNCHANGED issued
    /\ IF ToggleStatusInvalid(req.body)
       THEN /\ Reply(req, "toggleStatus", 400, Err("INVALID_STATUS"))
            /\ UNCHANGED tasks
       ELSE IF ~OwnsTask(req.user, id)
       THEN /\ Reply(req, "toggleStatus", 404, Err("TASK_NOT_FOUND"))
            /\ UNCHANGED tasks
       ELSE /\ tasks' = [tasks EXCEPT ![id] = ToggledRow(tasks[id], req.body.status)]
            /\ Reply(req, "toggleStatus", 200, ToggledRow(tasks[id], req.body.status))

\* ------------------------------------------ POST /api/tasks/:task_id/share
\* every share call renews
ShareNeedsNewExpiryAlways(currentExpiry) == TRUE

\* !currentExpiry || new Date(currentExpiry) <= now
ShareNeedsNewExpiry(currentExpiry) == currentExpiry.null \/ ParseDate(currentExpiry) <= now

\* new Date(now.getTime() + 30 days).toISOString()
ExpiryDate == ToISOString(now + ShareSeconds)

ShareExpiresAt(currentExpiry) ==
    IF ShareNeedsNewExpiry(currentExpiry) THEN ExpiryDate ELSE currentExpiry

\* a task of another owner is answered 403
ShareTaskHandlerForbidding(req, id) ==
    /\ UNCHANGED <<tasks, issued>>
    /\ IF id \in Ids /\ tasks[id].user_id # req.user
       THEN Reply(req, "shareTask", 403, Err("ACCESS_DENIED"))
       ELSE Reply(req, "shareTask", 404, Err("TASK_NOT_FOUND"))

ShareTaskHandler(req, id) ==
    /\ UNCHANGED issued
    /\ IF ~OwnsTask(req.user, id)
       THEN /\ Reply(req, "shareTask", 404, Err("TASK_NOT_FOUND"))
            /\ UNCHANGED tasks
       ELSE LET currentExpiry == tasks[id].share_expires_at IN
            /\ tasks' = IF ShareNeedsNewExpiry(currentExpiry)
                        THEN [tasks EXCEPT ![id].share_expires_at = ShareExpiresAt(currentExpiry),
                                           ![id].updated_at = ToISOString(now)]
                        ELSE tasks
            /\ Reply(req, "shareTask", 200,
                     [share_url |-> <<"share", id>>, expires_at |-> ShareExpiresAt(currentExpiry)])


\* --------------------------------------------- POST /api/tasks/bulk-complete
\* !task_ids || !Array.isArray(task_ids) || task_ids.length === 0
IdListInvalid(b, f) == ~Has(b, f) \/ Len(b[f]) = 0

\* SELECT COUNT(*) FROM tasks WHERE task_id = ANY($1) AND user_id = $2
ValidCount(ids, u) == Cardinality({id \in Owned(u) : id \in Range(ids)})

\* the ownership count is not compared
AccessDeniedNever(ids, u) == FALSE

\* validCount !== task_ids.length
AccessDenied(ids, u) == ValidCount(ids, u) # Len(ids)

CompletedRow(row) == [row EXCEPT !.status = "completed", !.updated_at = ToISOString(now)]

BulkCompleteHandler(req) ==
    /\ UNCHANGED issued
    /\ IF IdListInvalid(req.body, "task_ids")
       THEN /\ Reply(req, "bulkComplete", 400, Err("INVALID_TASK_IDS"))
            /\ UNCHANGED tasks
       ELSE IF AccessDenied(req.body.task_ids, req.user)
       THEN /\ Reply(req, "bulkComplete", 400, Err("INVALID_TASK_ACCESS"))
            /\ UNCHANGED tasks
       ELSE LET hit == {id \in Owned(req.user) : id \in Range(req.body.task_ids)} IN
            /\ tasks' = [id \in Ids |-> IF id \in hit THEN CompletedRow(tasks[id]) ELSE tasks[id]]
            /\ Reply(req, "bulkComplete", 200, [updated_count |-> Cardinality(hit)])

\* --------------------------------------------- DELETE /api/tasks/bulk-delete
BulkDeleteHandler(req) ==
    /\ UNCHANGED issued
    /\ IF IdListInvalid(req.body, "task_ids")
       THEN /\ Reply(req, "bulkDelete", 400, Err("INVALID_TASK_IDS"))
            /\ UNCHANGED tasks
       ELSE IF AccessDenied(req.body.task_ids, req.user)
       THEN /\ Reply(req, "bulkDelete", 400, Err("INVALID_TASK_ACCESS"))
            /\ UNCHANGED tasks
       ELSE LET hit == {id \in Owned(req.user) : id \in Range(req.body.task_ids)} IN
            /\ tasks' = Without(hit)
            /\ Reply(req, "bulkDelete", 200, [deleted_count |-> Cardinality(hit)])

\* ------------------------------------------------ PATCH /api/tasks/reorder
\* the UPDATEs of order.map((task_id, index) => ...) in the order they are issued:
\* the last position of an id in the list is the one that stays
RECURSIVE ReorderFrom(_, _, _, _)
ReorderFrom(t, order, u, i) ==
    IF i > Len(order) THEN t
    ELSE ReorderFrom(
           IF order[i] \in DOMAIN t /\ t[order[i]].user_id = u
           THEN [t EXCEPT ![order[i]].order_index = i - 1,
                          ![order[i]].updated_at = ToISOString(now)]
           ELSE t,
           order, u, i + 1)

Reordered(order, u) == ReorderFrom(tasks, order, u, 1)

\* ORDER BY <field> <direction>: an integer key per row, NULLs last ascending.
\* The order of two titles is the collation's: every order is allowed for.
StatusRank(x) == CASE x = "archived" -> 0 [] x = "completed" -> 1 [] x = "incomplete" -> 2 [] OTHER -> 3
PriorityRank(x) == CASE x = "high" -> 0 [] x = "low" -> 1 [] x = "medium" -> 2 [] OTHER -> 3
TsRank(ts) == IF ts.null THEN MaxInt32 ELSE 2 * ts.t + (IF ts.frac THEN 0 ELSE 1)

SortKey(field, row) ==
    CASE field = "order_index" -> row.order_index
      [] field = "status" -> StatusRank(row.status)
      [] field = "priority" -> PriorityRank(row.priority)
      [] field = "due_date" -> TsRank(row.due_date)
      [] field = "created_at" -> TsRank(row.created_at)
      [] field = "updated_at" -> TsRank(row.updated_at)
      [] OTHER -> 0

\* the orderings of the rows `ids` of table t the ORDER BY allows; ties in any order
SortedBy(t, ids, field, direction) ==
    {s \in [1..Cardinality(ids) -> ids] :
        /\ \A i, j \in 1..Cardinality(ids) : i # j => s[i] # s[j]
        /\ \A i, j \in 1..Cardinality(ids) :
              i < j => IF direction = "desc"
                       THEN SortKey(field, t[s[i]]) >= SortKey(field, t[s[j]])
                       ELSE SortKey(field, t[s[i]]) <= SortKey(field, t[s[j]])}

ReorderHandler(req) ==
    /\ UNCHANGED issued
    /\ IF IdListInvalid(req.body, "order")
       THEN /\ Reply(req, "reorder", 400, Err("INVALID_ORDER"))
            /\ UNCHANGED tasks
       ELSE IF AccessDenied(req.body.order, req.user)
       THEN /\ Reply(req, "reorder", 400, Err("INVALID_TASK_ACCESS"))
            /\ UNCHANGED tasks
       ELSE LET after == Reordered(req.body.order, req.user)
                hit == {id \in Owned(req.user) : id \in Range(req.body.order)}
            IN /\ tasks' = after
               /\ \E s \in SortedBy(after, hit, "order_index", "asc") :
                     Reply(req, "reorder", 200, [i \in 1..Len(s) |-> after[s[i]]])

\* ------------------------------------------ GET /api/public/tasks/:task_id
PublicFields == {"task_id", "title", "description", "due_date", "priority", "category",
                 "tags", "status", "share_expires_at"}

PublicProjection(row) == [f \in PublicFields |-> row[f]]

\* WHERE task_id = $1 AND share_expires_at > $2, $2 = new Date().toISOString()
PublicVisible(id) == id \in Ids /\ SqlTextGT(tasks[id].share_expires_at, ToISOString(now))

PublicTaskHandler(req, id) ==
    /\ UNCHANGED <<tasks, issued>>
    /\ IF ~PublicVisible(id)
       THEN Reply(req, "publicTask", 404, Err("SHARED_TASK_NOT_FOUND"))
       ELSE Reply(req, "publicTask", 200, PublicProjection(tasks[id]))


\* ----------------------------------------------------------- GET /api/tasks
Min(a, b) == IF a < b THEN a ELSE b
Max(a, b) == IF a > b THEN a ELSE b

\* Math.min(Math.max(parseInt(limitParam) || 10, 1), 1000)
Limit(q) ==
    LET parsed == IF Has(q, "limit") THEN q.limit ELSE DefaultLimit
        orDefault == IF parsed = 0 THEN DefaultLimit ELSE parsed
    IN Min(Max(orDefault, MinLimit), MaxLimit)

\* Math.max(parseInt(offsetParam) || 0, 0)
Offset(q) == Max(IF Has(q, "offset") THEN q.offset ELSE 0, 0)

\* if (filter_x): the parameter is there and not the empty string
StrGiven(q, f) == Has(q, f) /\ q[f] # ""
TextGiven(q, f) == Has(q, f) /\ q[f] # <<>>

\* whereConditions.join(' AND ')
Where(row, u, q) ==
    /\ row.user_id = u
    /\ StrGiven(q, "filter_status") => row.status = q.filter_status
    /\ StrGiven(q, "filter_category") => row.category = q.filter_category
    /\ StrGiven(q, "filter_priority") => row.priority = q.filter_priority
    /\ TextGiven(q, "filter_tags") => SqlLike(row.tags, Wrap(q.filter_tags))
    /\ TextGiven(q, "search_query") =>
          \/ SqlILike(row.title, Wrap(q.search_query))
          \/ SqlILike(row.description, Wrap(q.search_query))
          \/ SqlILike(row.tags, Wrap(q.search_query))

ValidSortFields == {"title", "due_date", "priority", "status", "order_index",
                    "created_at", "updated_at"}
ValidSortOrders == {"asc", "desc"}

SortField(q) == IF Has(q, "sort_by") /\ q.sort_by \in ValidSortFields
                THEN q.sort_by ELSE "order_index"
SortDirection(q) == IF Has(q, "sort_order") /\ q.sort_order \in ValidSortOrders
                    THEN q.sort_order ELSE "asc"

Matching(u, q) == {id \in Ids : Where(tasks[id], u, q)}

\* SELECT COUNT(*) FROM tasks WHERE ...
Total(u, q) == Cardinality(Matching(u, q))

\* LIMIT $n OFFSET $m of one ordering
Page(s, q) ==
    [i \in 1..Max(0, Min(Limit(q), Len(s) - Offset(q))) |-> tasks[s[i + Offset(q)]]]

ListReply(req, matching) ==
    \E s \in SortedBy(tasks, matching, SortField(req.body), SortDirection(req.body)) :
        Reply(req, "listTasks", 200,
              [tasks |-> Page(s, req.body), total |-> Cardinality(matching)])

ListTasksHandler(req) ==
    /\ UNCHANGED <<tasks, issued>>
    /\ ListReply(req, Matching(req.user, req.body))

\* --------------------------------------------------------- the route table
\* app.METHOD(path, ...) in the order of registration; ":task_id" takes any segment
Routes ==
    << [method |-> "GET",    path |-> <<"tasks">>,                             handler |-> "listTasks"],
       [method |-> "POST",   path |-> <<"tasks">>,                             handler |-> "createTask"],
       [method |-> "GET",    path |-> <<"tasks", ":task_id">>,                 handler |-> "getTask"],
       [method |-> "PATCH",  path |-> <<"tasks", ":task_id">>,                 handler |-> "updateTask"],
       [method |-> "DELETE", path |-> <<"tasks", ":task_id">>,                 handler |-> "deleteTask"],
       [method |-> "POST",   path |-> <<"tasks", ":task_id", "duplicate">>,    handler |-> "duplicateTask"],
       [method |-> "PATCH",  path |-> <<"tasks", ":task_id", "toggle-status">>, handler |-> "toggleStatus"],
       [method |-> "POST",   path |-> <<"tasks", ":task_id", "share">>,        handler |-> "shareTask"],
       [method |-> "POST",   path |-> <<"tasks", "bulk-complete">>,            handler |-> "bulkComplete"],
       [method |-> "DELETE", path |-> <<"tasks", "bulk-delete">>,              handler |-> "bulkDelete"],
       [method |-> "PATCH",  path |-> <<"tasks", "reorder">>,                  handler |-> "reorder"],
       [method |-> "GET",    path |-> <<"public", "tasks", ":task_id">>,       handler |-> "publicTask"] >>

RouteMatches(route, method, path) ==
    /\ route.method = method
    /\ Len(route.path) = Len(path)
    /\ \A i \in 1..Len(path) : route.path[i] = ":task_id" \/ route.path[i] = path[i]

\* Express runs the first registered route that matches; no handler calls next()
Dispatch(method, path) ==
    IF \E i \in 1..Len(Routes) : RouteMatches(Routes[i], method, path)
    THEN Routes[CHOOSE i \in 1..Len(Routes) :
                   /\ RouteMatches(Routes[i], method, path)
                   /\ \A j \in 1..(i - 1) : ~RouteMatches(Routes[j], method, path)].handler
    ELSE "notFound"

\* req.params.task_id of the route that runs
TaskIdParam(path) == IF path[1] = "public" THEN path[3] ELSE path[2]

\* one request is taken up
Accept ==
    /\ served < MaxRequests
    /\ served' = served + 1
    /\ UNCHANGED <<now, users, resets, calls, client, guest>>

Serve(req) ==
    LET handler == Dispatch(req.method, req.path) IN
    CASE handler = "listTasks" -> ListTasksHandler(req)
      [] handler = "createTask" -> CreateTaskHandler(req)
      [] handler = "getTask" -> GetTaskHandler(req, TaskIdParam(req.path))
      [] handler = "updateTask" -> UpdateTaskHandler(req, TaskIdParam(req.path))
      [] handler = "deleteTask" -> DeleteTaskHandler(req, TaskIdParam(req.path))
      [] handler = "duplicateTask" -> DuplicateTaskHandler(req, TaskIdParam(req.path))
      [] handler = "toggleStatus" -> ToggleStatusHandler(req, TaskIdParam(req.path))
      [] handler = "shareTask" -> ShareTaskHandler(req, TaskIdParam(req.path))
      [] handler = "bulkComplete" -> BulkCompleteHandler(req)
      [] handler = "bulkDelete" -> BulkDeleteHandler(req)
      [] handler = "reorder" -> ReorderHandler(req)
      [] handler = "publicTask" -> PublicTaskHandler(req, TaskIdParam(req.path))
      [] OTHER -> /\ Reply(req, "notFound", 404, Err("NOT_FOUND"))
                  /\ UNCHANGED <<tasks, issued>>


\* ------------------------------------------------------------ the requests
\* who sends requests with a valid bearer token
Callers == {"user_001", "user_003"}

\* the ids a request may name: the seed tasks and the ids uuidv4() may hand out
PathIds == SeedIds \cup {NewIds[i] : i \in 1..Min(MaxNewTasks, Len(NewIds))}

IdLists == UNION {[1..n -> PathIds] : n \in 1..MaxListLen}

SoonExpiry == Ts(StartTime + TickStep, FALSE)

CreateBodies ==
    { [title |-> <<"a">>],
      [title |-> <<"A", "_">>, description |-> <<"b">>, due_date |-> Ts(StartTime, FALSE),
       priority |-> "high", category |-> "Work", tags |-> <<"x">>, status |-> "completed"],
      [title |-> <<"a">>, order_index |-> 0],
      [title |-> <<"a">>, order_index |-> 1],
      [title |-> <<"a">>, order_index |-> MaxInt32],
      [title |-> <<"a">>, order_index |-> -1],
      [title |-> <<"a">>, share_expires_at |-> SoonExpiry],
      [title |-> <<"a">>, status |-> "archived"],
      [title |-> <<"a">>, priority |-> "invalid"],
      [title |-> <<>>] }

PatchBodies ==
    { NoBody,
      [status |-> "archived"],
      [order_index |-> 1],
      [user_id |-> "user_003", title |-> <<"b">>, priority |-> "low"],
      [priority |-> "invalid"],
      [title |-> NullText],
      [description |-> NullText],
      [share_expires_at |-> SoonExpiry] }

ToggleBodies ==
    { NoBody, [status |-> "completed"], [status |-> "incomplete"], [status |-> "archived"] }

ListQueries ==
    { NoBody,
      [filter_status |-> "incomplete"],
      [filter_status |-> "archived"],
      [filter_status |-> "all"],
      [filter_category |-> "Work", filter_priority |-> "high"],
      [filter_tags |-> <<"u", "r">>],
      [filter_tags |-> <<"_">>],
      [search_query |-> <<"R", "E", "P">>],
      [search_query |-> <<"_">>],
      [filter_status |-> "incomplete", search_query |-> <<"r", "e", "p", "o", "r", "t">>, limit |-> 1],
      [limit |-> 1],
      [limit |-> 1, offset |-> 1],
      [limit |-> 0],
      [limit |-> -1, offset |-> -1],
      [sort_by |-> "status", sort_order |-> "desc"],
      [sort_by |-> "bogus", sort_order |-> "up"] }

ListTasks(u, q) ==
    /\ Accept
    /\ Serve(Req("GET", <<"tasks">>, u, q))

CreateTask(u, b) ==
    /\ Accept
    /\ Serve(Req("POST", <<"tasks">>, u, b))

GetTask(u, id) ==
    /\ Accept
    /\ Serve(Req("GET", <<"tasks", id>>, u, NoBody))

UpdateTask(u, id, b) ==
    /\ Accept
    /\ Serve(Req("PATCH", <<"tasks", id>>, u, b))

DeleteTask(u, id) ==
    /\ Accept
    /\ Serve(Req("DELETE", <<"tasks", id>>, u, NoBody))

DuplicateTask(u, id) ==
    /\ Accept
    /\ Serve(Req("POST", <<"tasks", id, "duplicate">>, u, NoBody))

ToggleStatus(u, id, b) ==
    /\ Accept
    /\ Serve(Req("PATCH", <<"tasks", id, "toggle-status">>, u, b))

ShareTask(u, id) ==
    /\ Accept
    /\ Serve(Req("POST", <<"tasks", id, "share">>, u, NoBody))

BulkComplete(u, ids) ==
    /\ Accept
    /\ Serve(Req("POST", <<"tasks", "bulk-complete">>, u, [task_ids |-> ids]))

BulkDelete(u, ids) ==
    /\ Accept
    /\ Serve(Req("DELETE", <<"tasks", "bulk-delete">>, u, [task_ids |-> ids]))

Reorder(u, order) ==
    /\ Accept
    /\ Serve(Req("PATCH", <<"tasks", "reorder">>, u, [order |-> order]))

PublicTask(id) ==
    /\ Accept
    /\ Serve(Req("GET", <<"public", "tasks", id>>, Anonymous, NoBody))


\* time passes between two requests
Tick ==
    /\ now < StartTime + MaxTicks * TickStep
    /\ now' = now + TickStep
    /\ UNCHANGED <<tasks, issued, served, last, users, resets, calls, client, guest>>

Next ==
    \/ Tick
    \/ \E u \in Callers, q \in ListQueries : ListTasks(u, q)
    \/ \E u \in Callers, b \in CreateBodies : CreateTask(u, b)
    \/ \E u \in Callers, id \in PathIds : GetTask(u, id)
    \/ \E u \in Callers, id \in PathIds, b \in PatchBodies : UpdateTask(u, id, b)
    \/ \E u \in Callers, id \in PathIds : DeleteTask(u, id)
    \/ \E u \in Callers, id \in PathIds : DuplicateTask(u, id)
    \/ \E u \in Callers, id \in PathIds, b \in ToggleBodies : ToggleStatus(u, id, b)
    \/ \E u \in Callers, id \in PathIds : ShareTask(u, id)
    \/ \E u \in Callers, ids \in IdLists : BulkComplete(u, ids)
    \/ \E u \in Callers, ids \in IdLists : BulkDelete(u, ids)
    \/ \E u \in Callers, order \in IdLists : Reorder(u, order)
    \/ \E id \in PathIds : PublicTask(id)

Spec == Init /\ [][Next]_vars


\* ------------------------------------------------------------ password reset
\* Each await of a handler is a point where another request may run: a call is taken
\* in with its first query, and its later statements are steps of their own.
ResetSeconds == 60 * 60

RECURSIVE TrimLeft(_)
TrimLeft(s) == IF s # <<>> /\ Head(s) = " " THEN TrimLeft(Tail(s)) ELSE s
RECURSIVE TrimRight(_)
TrimRight(s) == IF s # <<>> /\ s[Len(s)] = " " THEN TrimRight(SubSeq(s, 1, Len(s) - 1)) ELSE s
\* String.prototype.trim()
Trim(s) == TrimRight(TrimLeft(s))

\* email.toLowerCase().trim()
NormalizedEmail(email) == Trim(Lower(email))

\* SELECT user_id FROM users WHERE email = $1
UsersByEmail(email) == {u \in DOMAIN users : users[u].email = email}

NoUser == "<none>"
NoToken == ""
NoText == <<>>

Call(op, pc, email, reset_token, password, user_id, status, code) ==
    [op |-> op, pc |-> pc, email |-> email, reset_token |-> reset_token,
     password |-> password, user_id |-> user_id, status |-> status, code |-> code]

CallIds == 1..Len(calls)
CanTakeCall == Len(calls) < MaxCalls

\* a call moves on to its next statement, or ends with its response
Advance(i, pc) == calls' = [calls EXCEPT ![i].pc = pc]
Respond(i, status, code) ==
    calls' = [calls EXCEPT ![i].pc = "done", ![i].status = status, ![i].code = code]

\* POST /api/auth/forgot-password up to the SELECT of the user
ForgotPassword(email) ==
    /\ CanTakeCall
    /\ UNCHANGED <<tasks, now, issued, served, last, users, resets, client, guest>>
    /\ IF email = NoText
       THEN calls' = Append(calls, Call("forgot", "done", email, NoToken, NoText, NoUser,
                                        400, "MISSING_EMAIL"))
       ELSE LET found == UsersByEmail(NormalizedEmail(email)) IN
            IF found = {}
            THEN calls' = Append(calls, Call("forgot", "done", email, NoToken, NoText,
                                             NoUser, 200, "OK"))
            ELSE \E u \in found :
                    calls' = Append(calls, Call("forgot", "delete", email, NoToken, NoText,
                                                u, 0, ""))

\* DELETE FROM password_resets WHERE user_id = $1
ForgotPasswordDelete(i) ==
    /\ calls[i].op = "forgot" /\ calls[i].pc = "delete"
    /\ resets' = {r \in resets : r.user_id # calls[i].user_id}
    /\ Advance(i, "insert")
    /\ UNCHANGED <<tasks, now, issued, served, last, users, client, guest>>

\* the lifetime of a token: new Date(Date.now() + 60 * 60 * 1000).toISOString()
ResetExpiresAt == ToISOString(now + ResetSeconds)

\* INSERT INTO password_resets (reset_token, user_id, expires_at), then the 200
ForgotPasswordInsert(i) ==
    /\ calls[i].op = "forgot" /\ calls[i].pc = "insert"
    /\ issued < MaxTokens /\ issued < Len(NewIds)
    /\ resets' = resets \cup {[reset_token |-> FreshId, user_id |-> calls[i].user_id,
                              expires_at |-> ResetExpiresAt]}
    /\ issued' = issued + 1
    /\ calls' = [calls EXCEPT ![i].pc = "done", ![i].status = 200, ![i].code = "OK",
                              ![i].reset_token = FreshId]
    /\ UNCHANGED <<tasks, now, served, last, users, client, guest>>

\* password.length < 8
PasswordTooShort(password) == Len(password) < 8

\* SELECT user_id FROM password_resets WHERE reset_token = $1 AND expires_at > $2
ValidResets(reset_token) ==
    {r \in resets : r.reset_token = reset_token
                      /\ SqlTextGT(r.expires_at, ToISOString(now))}

\* POST /api/auth/reset-password up to the SELECT of the token
ResetPassword(reset_token, password) ==
    /\ CanTakeCall
    /\ UNCHANGED <<tasks, now, issued, served, last, users, resets, client, guest>>
    /\ IF reset_token = NoToken \/ password = NoText
       THEN calls' = Append(calls, Call("reset", "done", NoText, reset_token, password,
                                        NoUser, 400, "MISSING_REQUIRED_FIELDS"))
       ELSE IF PasswordTooShort(password)
       THEN calls' = Append(calls, Call("reset", "done", NoText, reset_token, password,
                                        NoUser, 400, "PASSWORD_TOO_SHORT"))
       ELSE IF ValidResets(reset_token) = {}
       THEN calls' = Append(calls, Call("reset", "done", NoText, reset_token, password,
                                        NoUser, 400, "INVALID_RESET_TOKEN"))
       ELSE \E r \in ValidResets(reset_token) :
               calls' = Append(calls, Call("reset", "update", NoText, reset_token, password,
                                           r.user_id, 0, ""))

\* UPDATE users SET password_hash = $1 WHERE user_id = $2
ResetPasswordUpdate(i) ==
    /\ calls[i].op = "reset" /\ calls[i].pc = "update"
    /\ users' = [users EXCEPT ![calls[i].user_id].password_hash = calls[i].password]
    /\ Advance(i, "deleteToken")
    /\ UNCHANGED <<tasks, now, issued, served, last, resets, client, guest>>

\* DELETE FROM password_resets WHERE reset_token = $1, then the user and the JWT
ResetPasswordDeleteToken(i) ==
    /\ calls[i].op = "reset" /\ calls[i].pc = "deleteToken"
    /\ resets' = {r \in resets : r.reset_token # calls[i].reset_token}
    /\ Respond(i, 200, "OK")
    /\ UNCHANGED <<tasks, now, issued, served, last, users, client, guest>>

\* time passes, half a token lifetime at a time
AuthTick ==
    /\ now < StartTime + MaxAuthTicks * (ResetSeconds \div 2)
    /\ now' = now + ResetSeconds \div 2
    /\ UNCHANGED <<tasks, issued, served, last, users, resets, calls, client, guest>>

JohnEmail == SeedUsers["user_001"].email
TestEmail == SeedUsers["user_003"].email

ForgotEmails ==
    { NoText, JohnEmail, TestEmail,
      <<" ","J","o","h","n",".","D","o","e","@","E","x","a","m","p","l","e",".","c","o","m"," ">>,
      <<"n","o","b","o","d","y","@","e","x","a","m","p","l","e",".","c","o","m">> }

NewPasswordA == <<"n","e","w","p","a","s","s","A">>
NewPasswordB == <<"n","e","w","p","a","s","s","B">>
ShortPassword == <<"s","h","o","r","t">>

ResetBodies ==
    {[reset_token |-> t, password |-> p] :
        t \in {NewIds[k] : k \in 1..MaxTokens}, p \in {NewPasswordA, NewPasswordB}}
    \cup { [reset_token |-> "unknown", password |-> NewPasswordA],
           [reset_token |-> NoToken, password |-> NewPasswordA],
           [reset_token |-> NewIds[1], password |-> NoText],
           [reset_token |-> NewIds[1], password |-> ShortPassword] }

AuthNext ==
    \/ AuthTick
    \/ \E email \in ForgotEmails : ForgotPassword(email)
    \/ \E i \in CallIds : ForgotPasswordDelete(i)
    \/ \E i \in CallIds : ForgotPasswordInsert(i)
    \/ \E b \in ResetBodies : ResetPassword(b.reset_token, b.password)
    \/ \E i \in CallIds : ResetPasswordUpdate(i)
    \/ \E i \in CallIds : ResetPasswordDeleteToken(i)

AuthSpec == Init /\ [][AuthNext]_vars

\* the same with one request served at a time: a call is taken in when every earlier
\* call has answered
AllAnswered == \A i \in CallIds : calls[i].pc = "done"

AuthSerialNext ==
    \/ AuthTick
    \/ AllAnswered /\ \E email \in ForgotEmails : ForgotPassword(email)
    \/ \E i \in CallIds : ForgotPasswordDelete(i)
    \/ \E i \in CallIds : ForgotPasswordInsert(i)
    \/ AllAnswered /\ \E b \in ResetBodies : ResetPassword(b.reset_token, b.password)
    \/ \E i \in CallIds : ResetPasswordUpdate(i)
    \/ \E i \in CallIds : ResetPasswordDeleteToken(i)

AuthSerialSpec == Init /\ [][AuthSerialNext]_vars


\* ------------------------------------------------------ POST /api/auth/register
MaxNewUsers == 2

\* z.string().email(): a local part, one @, a domain with a dot in it and no blank
IndicesOf(s, c) == {i \in 1..Len(s) : s[i] = c}
IsEmail(s) ==
    /\ Cardinality(IndicesOf(s, "@")) = 1
    /\ IndicesOf(s, " ") = {}
    /\ LET at == CHOOSE i \in IndicesOf(s, "@") : TRUE
       IN /\ at > 1
          /\ \E d \in IndicesOf(s, ".") : d > at + 1 /\ d < Len(s)

\* createUserInputSchema.safeParse({email: email?.toLowerCase().trim(), password_hash: password, ...})
CreateUserInputValid(email, password) ==
    /\ IsEmail(NormalizedEmail(email))
    /\ Len(NormalizedEmail(email)) <= 255
    /\ Len(password) >= 8

\* the UNIQUE constraint of users.email compares the stored text as it is
EmailTaken(email) == UsersByEmail(email) # {}

\* POST /api/auth/register up to the SELECT of the existing user
Register(email, password) ==
    /\ CanTakeCall
    /\ UNCHANGED <<tasks, now, issued, served, last, users, resets, client, guest>>
    /\ IF ~CreateUserInputValid(email, password)
       THEN calls' = Append(calls, Call("register", "done", email, NoToken, password, NoUser,
                                        400, "VALIDATION_ERROR"))
       ELSE IF PasswordTooShort(password)
       THEN calls' = Append(calls, Call("register", "done", email, NoToken, password, NoUser,
                                        400, "PASSWORD_TOO_SHORT"))
       ELSE IF UsersByEmail(NormalizedEmail(email)) # {}
       THEN calls' = Append(calls, Call("register", "done", email, NoToken, password, NoUser,
                                        400, "USER_ALREADY_EXISTS"))
       ELSE calls' = Append(calls, Call("register", "insert", email, NoToken, password,
                                        NoUser, 0, ""))

\* INSERT INTO users ..., then the 201 with the user and the JWT; a row that breaks the
\* UNIQUE constraint makes the statement throw and the catch block answer 500
RegisterInsert(i) ==
    /\ calls[i].op = "register" /\ calls[i].pc = "insert"
    /\ UNCHANGED <<tasks, now, served, last, resets, client, guest>>
    /\ IF EmailTaken(NormalizedEmail(calls[i].email))
       THEN /\ Respond(i, 500, "INTERNAL_SERVER_ERROR")
            /\ UNCHANGED <<users, issued>>
       ELSE /\ issued < MaxNewUsers /\ issued < Len(NewIds)
            /\ users' = [u \in DOMAIN users \cup {FreshId} |->
                           IF u = FreshId
                           THEN [user_id |-> FreshId,
                                 email |-> NormalizedEmail(calls[i].email),
                                 password_hash |-> calls[i].password,
                                 name |-> Null,
                                 predefined_categories |-> DefaultCategories,
                                 created_at |-> ToISOString(now)]
                           ELSE users[u]]
            /\ issued' = issued + 1
            /\ calls' = [calls EXCEPT ![i].pc = "done", ![i].status = 201, ![i].code = "OK",
                                      ![i].user_id = FreshId]

AnnEmail == <<"a","n","n","@","x",".","i","o">>

RegisterBodies ==
    {[email |-> e, password |-> NewPasswordA] :
        e \in { JohnEmail,
                <<" ","J","o","h","n",".","D","o","e","@","E","x","a","m","p","l","e",".","c","o","m"," ">>,
                AnnEmail,
                <<"A","n","n","@","X",".","i","o">>,
                <<"A","N","N","@","x",".","I","O"," ">>,
                <<"a","n","n"," ","@","x",".","i","o">>,
                <<"a","n","n">> }}
    \cup { [email |-> AnnEmail, password |-> ShortPassword],
           [email |-> JohnEmail, password |-> ShortPassword] }

RegisterNext ==
    \/ \E b \in RegisterBodies : Register(b.email, b.password)
    \/ \E i \in CallIds : RegisterInsert(i)

RegisterSpec == Init /\ [][RegisterNext]_vars

\* the same with one request served at a time
RegisterSerialNext ==
    \/ AllAnswered /\ \E b \in RegisterBodies : Register(b.email, b.password)
    \/ \E i \in CallIds : RegisterInsert(i)

RegisterSerialSpec == Init /\ [][RegisterSerialNext]_vars

\* ------------------------------------- task requests, statement by statement
\* Create, duplicate and reorder requests in flight together: a handler runs up to its
\* next awaited statement, then another request may run.
TaskCall(op, pc, user, body, original, next_order, task_id, status, code) ==
    [op |-> op, pc |-> pc, user |-> user, body |-> body, original |-> original,
     next_order |-> next_order, task_id |-> task_id, status |-> status, code |-> code]

NoRow == [none |-> TRUE]
NoTask == "<none>"

\* POST /api/tasks up to SELECT COALESCE(MAX(order_index), -1) + 1 as next_order
CreateTaskReadMax(u, body) ==
    /\ CanTakeCall
    /\ UNCHANGED <<tasks, now, issued, served, last, users, resets, client, guest>>
    /\ LET vd == ValidationData(u, body) IN
       IF ~CreateTaskInputValid(vd)
       THEN calls' = Append(calls, TaskCall("create", "done", u, body, NoRow, 0, NoTask,
                                            400, "VALIDATION_ERROR"))
       ELSE IF CreateNeedsNextOrder(vd) /\ NextOrderFails(u)
       THEN calls' = Append(calls, TaskCall("create", "done", u, body, NoRow, 0, NoTask,
                                            500, "INTERNAL_SERVER_ERROR"))
       ELSE calls' = Append(calls, TaskCall("create", "insert", u, body, NoRow,
                                            IF CreateNeedsNextOrder(vd) THEN NextOrder(u)
                                                                        ELSE vd.order_index,
                                            NoTask, 0, ""))

\* INSERT INTO tasks ... RETURNING *, then the 201
CreateTaskInsert(i) ==
    /\ calls[i].op = "create" /\ calls[i].pc = "insert"
    /\ issued < Len(NewIds)
    /\ tasks' = (FreshId :> CreatedRow(FreshId, ValidationData(calls[i].user, calls[i].body),
                                       calls[i].next_order)) @@ tasks
    /\ issued' = issued + 1
    /\ calls' = [calls EXCEPT ![i].pc = "done", ![i].status = 201, ![i].code = "OK",
                              ![i].task_id = FreshId]
    /\ UNCHANGED <<now, served, last, users, resets, client, guest>>

\* POST /api/tasks/:task_id/duplicate up to the SELECT of the original
DuplicateTaskSelect(u, id) ==
    /\ CanTakeCall
    /\ UNCHANGED <<tasks, now, issued, served, last, users, resets, client, guest>>
    /\ IF ~OwnsTask(u, id)
       THEN calls' = Append(calls, TaskCall("duplicate", "done", u, NoBody, NoRow, 0, NoTask,
                                            404, "TASK_NOT_FOUND"))
       ELSE calls' = Append(calls, TaskCall("duplicate", "max", u, NoBody, tasks[id], 0,
                                            NoTask, 0, ""))

\* SELECT COALESCE(MAX(order_index), -1) + 1 as next_order
DuplicateTaskReadMax(i) ==
    /\ calls[i].op = "duplicate" /\ calls[i].pc = "max"
    /\ UNCHANGED <<tasks, now, issued, served, last, users, resets, client, guest>>
    /\ IF NextOrderFails(calls[i].user)
       THEN Respond(i, 500, "INTERNAL_SERVER_ERROR")
       ELSE calls' = [calls EXCEPT ![i].pc = "insert",
                                   ![i].next_order = NextOrder(calls[i].user)]

\* INSERT INTO tasks ... RETURNING *, then the 201
DuplicateTaskInsert(i) ==
    /\ calls[i].op = "duplicate" /\ calls[i].pc = "insert"
    /\ issued < Len(NewIds)
    /\ tasks' = (FreshId :> DuplicateRow(FreshId, calls[i].user, calls[i].original,
                                         calls[i].next_order)) @@ tasks
    /\ issued' = issued + 1
    /\ calls' = [calls EXCEPT ![i].pc = "done", ![i].status = 201, ![i].code = "OK",
                              ![i].task_id = FreshId]
    /\ UNCHANGED <<now, served, last, users, resets, client, guest>>

\* PATCH /api/tasks/reorder: the request runs the handler Express dispatches it to, which
\* answers after its first statement
ReorderRequest(u, order) ==
    /\ CanTakeCall
    /\ Dispatch("PATCH", <<"tasks", "reorder">>) = "updateTask"
    /\ Serve(Req("PATCH", <<"tasks", "reorder">>, u, [order |-> order]))
    /\ calls' = Append(calls, TaskCall("reorder", "done", u, [order |-> order], NoRow, 0,
                                       NoTask, last'.status, last'.res.error_code))
    /\ UNCHANGED <<now, served, users, resets, client, guest>>

ReorderOrders ==
    [user_001 |-> {<<"task_001", "task_002">>, <<"task_002", "task_001">>},
     user_003 |-> {<<"task_003">>}]

OrderNext ==
    \/ \E u \in Callers : CreateTaskReadMax(u, [title |-> <<"a">>])
    \/ \E i \in CallIds : CreateTaskInsert(i)
    \/ \E u \in Callers, id \in SeedIds \cup {NewIds[1]} : DuplicateTaskSelect(u, id)
    \/ \E i \in CallIds : DuplicateTaskReadMax(i)
    \/ \E i \in CallIds : DuplicateTaskInsert(i)
    \/ \E u \in Callers : \E order \in ReorderOrders[u] : ReorderRequest(u, order)

OrderSpec == Init /\ [][OrderNext]_vars

\* the same with one request served at a time
OrderSerialNext ==
    \/ AllAnswered /\ \E u \in Callers : CreateTaskReadMax(u, [title |-> <<"a">>])
    \/ \E i \in CallIds : CreateTaskInsert(i)
    \/ AllAnswered /\ \E u \in Callers, id \in SeedIds \cup {NewIds[1]} :
                         DuplicateTaskSelect(u, id)
    \/ \E i \in CallIds : DuplicateTaskReadMax(i)
    \/ \E i \in CallIds : DuplicateTaskInsert(i)
    \/ AllAnswered /\ \E u \in Callers : \E order \in ReorderOrders[u] :
                         ReorderRequest(u, order)

OrderSerialSpec == Init /\ [][OrderSerialNext]_vars

\* ---------------------------------------------------------- authenticateToken
\* An Authorization header is the sequence of its words; a JWT is what jwt.verify looks
\* at: whose it is, when it expires and whether the signature is ours.
JwtSeconds == 7 * 24 * 60 * 60

Jwt(user_id, exp, signed) == [user_id |-> user_id, exp |-> exp, signed |-> signed]
NoHeader == <<>>
NoJwt == [none |-> TRUE]

\* authHeader && authHeader.split(' ')[1]
HeaderToken(header) == IF Len(header) >= 2 THEN header[2] ELSE NoJwt

\* jwt.verify(token, JWT_SECRET) does not throw
JwtVerifies(token) ==
    /\ DOMAIN token = {"user_id", "exp", "signed"}
    /\ token.signed
    /\ now < token.exp

\* SELECT user_id, email, name, predefined_categories, created_at FROM users
UserView(u) == [f \in DOMAIN users[u] \ {"password_hash"} |-> users[u][f]]

\* the middleware had it read the token with jwt.decode, which checks neither the
\* signature nor the expiry
AuthenticateTokenDecodeOnly(header) ==
    LET token == HeaderToken(header) IN
    IF token = NoJwt
    THEN [status |-> 401, code |-> "AUTH_TOKEN_MISSING", user |-> Anonymous]
    ELSE IF "user_id" \notin DOMAIN token
    THEN [status |-> 403, code |-> "AUTH_TOKEN_INVALID", user |-> Anonymous]
    ELSE IF token.user_id \notin DOMAIN users
    THEN [status |-> 401, code |-> "AUTH_USER_NOT_FOUND", user |-> Anonymous]
    ELSE [status |-> 0, code |-> "", user |-> token.user_id]

\* the middleware: status 0 stands for next() with req.user set
AuthenticateToken(header) ==
    LET token == HeaderToken(header) IN
    IF token = NoJwt
    THEN [status |-> 401, code |-> "AUTH_TOKEN_MISSING", user |-> Anonymous]
    ELSE IF ~JwtVerifies(token)
    THEN [status |-> 403, code |-> "AUTH_TOKEN_INVALID", user |-> Anonymous]
    ELSE IF token.user_id \notin DOMAIN users
    THEN [status |-> 401, code |-> "AUTH_USER_NOT_FOUND", user |-> Anonymous]
    ELSE [status |-> 0, code |-> "", user |-> token.user_id]

\* the routes outside /api/tasks that are registered with authenticateToken
AccountRoutes ==
    << [method |-> "POST", path |-> <<"auth", "logout">>,                  handler |-> "logout"],
       [method |-> "GET",  path |-> <<"users", "me">>,                     handler |-> "me"],
       [method |-> "GET",  path |-> <<"users", ":user_id", "categories">>, handler |-> "getCategories"],
       [method |-> "POST", path |-> <<"users", ":user_id", "categories">>, handler |-> "addCategory"] >>

AccountRouteMatches(route, method, path) ==
    /\ route.method = method
    /\ Len(route.path) = Len(path)
    /\ \A i \in 1..Len(path) : route.path[i] = ":user_id" \/ route.path[i] = path[i]

\* the handler Express runs: the account routes are registered before the task routes
\* and share no path with them
DispatchAll(method, path) ==
    IF \E i \in 1..Len(AccountRoutes) : AccountRouteMatches(AccountRoutes[i], method, path)
    THEN AccountRoutes[CHOOSE i \in 1..Len(AccountRoutes) :
                         /\ AccountRouteMatches(AccountRoutes[i], method, path)
                         /\ \A j \in 1..(i - 1) :
                               ~AccountRouteMatches(AccountRoutes[j], method, path)].handler
    ELSE Dispatch(method, path)

\* the handlers registered without authenticateToken
OpenHandlers == {"publicTask", "notFound"}

LogoutHandler(req) ==
    /\ Reply(req, "logout", 200, [message |-> "Logged out successfully"])
    /\ UNCHANGED <<tasks, issued, users>>

MeHandler(req) ==
    /\ Reply(req, "me", 200, [user |-> UserView(req.user)])
    /\ UNCHANGED <<tasks, issued, users>>

GetCategoriesHandler(req, user_id) ==
    /\ UNCHANGED <<tasks, issued, users>>
    /\ IF user_id # req.user
       THEN Reply(req, "getCategories", 403, Err("ACCESS_DENIED"))
       ELSE Reply(req, "getCategories", 200, users[req.user].predefined_categories)

AddCategoryHandler(req, user_id) ==
    /\ UNCHANGED <<tasks, issued>>
    /\ IF user_id # req.user
       THEN Reply(req, "addCategory", 403, Err("ACCESS_DENIED")) /\ UNCHANGED users
       ELSE IF ~Has(req.body, "category") \/ Len(Trim(req.body.category)) = 0
       THEN Reply(req, "addCategory", 400, Err("MISSING_CATEGORY")) /\ UNCHANGED users
       ELSE IF Len(req.body.category) > CategoryMax
       THEN Reply(req, "addCategory", 400, Err("CATEGORY_TOO_LONG")) /\ UNCHANGED users
       ELSE IF Trim(req.body.category) \in Range(users[req.user].predefined_categories)
       THEN Reply(req, "addCategory", 400, Err("DUPLICATE_CATEGORY")) /\ UNCHANGED users
       ELSE LET updatedCategories ==
                    Append(users[req.user].predefined_categories, Trim(req.body.category))
            IN /\ users' = [users EXCEPT ![req.user].predefined_categories = updatedCategories]
               /\ Reply(req, "addCategory", 200, updatedCategories)

\* the handler of a request that has passed the middleware, or needs none
ServeAll(req) ==
    LET handler == DispatchAll(req.method, req.path) IN
    CASE handler = "logout" -> LogoutHandler(req)
      [] handler = "me" -> MeHandler(req)
      [] handler = "getCategories" -> GetCategoriesHandler(req, req.path[2])
      [] handler = "addCategory" -> AddCategoryHandler(req, req.path[2])
      [] OTHER -> Serve(req) /\ UNCHANGED users

\* one request with its Authorization header: the middleware, then the handler
GatedRequest(header, method, path, body) ==
    /\ served < MaxRequests
    /\ served' = served + 1
    /\ UNCHANGED <<now, resets, calls, client, guest>>
    /\ IF DispatchAll(method, path) \in OpenHandlers
       THEN ServeAll(Req(method, path, Anonymous, body))
       ELSE LET auth == AuthenticateToken(header) IN
            IF auth.status # 0
            THEN /\ Reply(Req(method, path, Anonymous, body), "authenticateToken",
                          auth.status, Err(auth.code))
                 /\ UNCHANGED <<tasks, issued, users>>
            ELSE ServeAll(Req(method, path, auth.user, body))

\* the tokens a client may hold: issued at start for a user, expired, signed by another
\* key, issued for a user that is not in the table; and no token, or not a JWT
TokenOf(u) == Jwt(u, StartTime + JwtSeconds, TRUE)
Headers ==
    { NoHeader,
      <<"Bearer">>,
      <<"Bearer", TokenOf("user_001")>>,
      <<"Bearer", TokenOf("user_003")>>,
      <<"Token", TokenOf("user_001")>>,
      <<"Bearer", Jwt("user_001", StartTime, TRUE)>>,
      <<"Bearer", Jwt("user_001", StartTime + JwtSeconds, FALSE)>>,
      <<"Bearer", TokenOf("user_404")>>,
      <<"Bearer", [garbage |-> TRUE]>> }

NewCategory == <<" ","H","o","m","e"," ">>

\* one or two requests for each route
GateRequests ==
    { [method |-> "POST",   path |-> <<"auth", "logout">>, body |-> NoBody],
      [method |-> "GET",    path |-> <<"users", "me">>, body |-> NoBody],
      [method |-> "GET",    path |-> <<"users", "user_001", "categories">>, body |-> NoBody],
      [method |-> "POST",   path |-> <<"users", "user_001", "categories">>,
                            body |-> [category |-> NewCategory]],
      [method |-> "POST",   path |-> <<"users", "user_001", "categories">>,
                            body |-> [category |-> DefaultCategories[1]]],
      [method |-> "GET",    path |-> <<"tasks">>, body |-> NoBody],
      [method |-> "POST",   path |-> <<"tasks">>, body |-> [title |-> <<"a">>]],
      [method |-> "GET",    path |-> <<"tasks", "task_001">>, body |-> NoBody],
      [method |-> "PATCH",  path |-> <<"tasks", "task_001">>, body |-> [status |-> "archived"]],
      [method |-> "DELETE", path |-> <<"tasks", "task_001">>, body |-> NoBody],
      [method |-> "POST",   path |-> <<"tasks", "task_001", "duplicate">>, body |-> NoBody],
      [method |-> "PATCH",  path |-> <<"tasks", "task_001", "toggle-status">>,
                            body |-> [status |-> "completed"]],
      [method |-> "POST",   path |-> <<"tasks", "task_001", "share">>, body |-> NoBody],
      [method |-> "POST",   path |-> <<"tasks", "bulk-complete">>,
                            body |-> [task_ids |-> <<"task_001">>]],
      [method |-> "DELETE", path |-> <<"tasks", "bulk-delete">>,
                            body |-> [task_ids |-> <<"task_001">>]],
      [method |-> "PATCH",  path |-> <<"tasks", "reorder">>,
                            body |-> [order |-> <<"task_002", "task_001">>]],
      [method |-> "GET",    path |-> <<"public", "tasks", "task_001">>, body |-> NoBody] }

GateNext ==
    \/ Tick
    \/ \E header \in Headers, r \in GateRequests :
          GatedRequest(header, r.method, r.path, r.body)

GateSpec == Init /\ [][GateNext]_vars


\* ----------------------------------------------------- the client auth store
\* authentication_state of the zustand store, with authentication_status flattened; an
\* action that awaits an HTTP response is in client.inflight until the response comes.
MaxInflight == 2        \* store actions awaiting a response at one time

Store == client.store
Inflight == client.inflight
InflightIds == 1..Len(Inflight)

RemoveAt(s, i) == SubSeq(s, 1, i - 1) \o SubSeq(s, i + 1, Len(s))

\* jwt.sign({user_id, email}, JWT_SECRET, {expiresIn: '7d'}) as the client holds it
ClientToken(u) == "jwt_" \o u
ClientUsers == {"user_001", "user_003"}
UserOfToken(token) == CHOOSE u \in ClientUsers : ClientToken(u) = token

\* the user object of a login, register or reset-password response
UserData(u) == [user_id |-> u, name |-> "n"]
\* response.data of GET /api/users/me: res.json({user: req.user})
MeData(u) == [user |-> UserData(u)]

\* set(...) of an action: the new store; the history flag is kept unless given
SetStore(s) == [client EXCEPT !.store = s]

\* initialize_auth, catch branch and success branch
InitializeAuthFailed(s) ==
    [s EXCEPT !.current_user = NullUser, !.auth_token = Null,
              !.is_authenticated = FALSE, !.is_loading = FALSE, !.error_message = Null]

\* the success branch had it keep the token the store holds when the response comes
InitializeAuthSucceededKeepingToken(s, auth_token, data) ==
    [s EXCEPT !.current_user = data,
              !.is_authenticated = TRUE, !.is_loading = FALSE, !.error_message = Null]

InitializeAuthSucceeded(s, auth_token, data) ==
    [s EXCEPT !.current_user = data, !.auth_token = auth_token,
              !.is_authenticated = TRUE, !.is_loading = FALSE, !.error_message = Null]

\* login_user, register_user, reset_password: set at the start
AuthActionStarted(s) == [s EXCEPT !.is_loading = TRUE, !.error_message = Null]

\* login_user, register_user, reset_password: set on a 2xx response
AuthActionSucceeded(user, token) ==
    [current_user |-> user, auth_token |-> token, is_guest |-> FALSE,
     is_authenticated |-> TRUE, is_loading |-> FALSE, error_message |-> Null]

\* login_user: set in the catch branch
LoginFailed(s) ==
    [s EXCEPT !.current_user = NullUser, !.auth_token = Null,
              !.is_authenticated = FALSE, !.is_loading = FALSE,
              !.error_message = "Login failed"]

\* register_user, reset_password: set in the catch branch
RegisterOrResetFailed(s, message) ==
    [s EXCEPT !.is_authenticated = FALSE, !.is_loading = FALSE, !.error_message = message]

\* logout_user: the final set
LoggedOut(s) ==
    [s EXCEPT !.current_user = NullUser, !.auth_token = Null, !.is_guest = FALSE,
              !.is_authenticated = FALSE, !.is_loading = FALSE, !.error_message = Null]

\* persistOptions.partialize, as the store is read back on a page load
Partialize(s) ==
    [current_user |-> s.current_user, auth_token |-> s.auth_token, is_guest |-> FALSE,
     is_authenticated |-> s.is_authenticated, is_loading |-> FALSE, error_message |-> Null]

CanStart == Len(Inflight) < MaxInflight

\* initialize_auth up to the GET /api/users/me
InitializeAuth ==
    /\ UNCHANGED <<serverVars, guest>>
    /\ IF Store.auth_token = Null
       THEN client' = SetStore([Store EXCEPT !.is_loading = FALSE])
       ELSE /\ CanStart
            /\ client' = [client EXCEPT
                            !.store = [Store EXCEPT !.is_loading = FALSE],
                            !.inflight = Append(Inflight, [op |-> "initialize_auth",
                                                           auth_token |-> Store.auth_token])]

\* the response to GET /api/users/me, or its failure
InitializeAuthResponse(i, ok) ==
    /\ Inflight[i].op = "initialize_auth"
    /\ UNCHANGED <<serverVars, guest>>
    /\ client' = [client EXCEPT
                    !.inflight = RemoveAt(Inflight, i),
                    !.store = IF ok
                              THEN InitializeAuthSucceeded(Store, Inflight[i].auth_token,
                                       MeData(UserOfToken(Inflight[i].auth_token)))
                              ELSE InitializeAuthFailed(Store)]

\* login_user, register_user, reset_password up to their POST
StartedAuthAction(op) ==
    [client EXCEPT !.store = AuthActionStarted(Store),
                   !.inflight = Append(Inflight, [op |-> op, auth_token |-> Null])]

LoginUser ==
    /\ CanStart
    /\ UNCHANGED <<serverVars, guest>>
    /\ client' = StartedAuthAction("login_user")

RegisterUser ==
    /\ CanStart
    /\ UNCHANGED <<serverVars, guest>>
    /\ client' = StartedAuthAction("register_user")

ResetPasswordAction ==
    /\ CanStart
    /\ UNCHANGED <<serverVars, guest>>
    /\ client' = StartedAuthAction("reset_password")

\* a 2xx response with {user, token} to one of the three
AuthActionSuccess(i, u) ==
    /\ Inflight[i].op \in {"login_user", "register_user", "reset_password"}
    /\ UNCHANGED <<serverVars, guest>>
    /\ client' = [store |-> AuthActionSucceeded(UserData(u), ClientToken(u)),
                  inflight |-> RemoveAt(Inflight, i),
                  logged_out |-> FALSE]

\* an error response to one of the three
AuthActionFailure(i) ==
    /\ Inflight[i].op \in {"login_user", "register_user", "reset_password"}
    /\ UNCHANGED <<serverVars, guest>>
    /\ client' = [client EXCEPT
                    !.inflight = RemoveAt(Inflight, i),
                    !.store = IF Inflight[i].op = "login_user"
                              THEN LoginFailed(Store)
                              ELSE IF Inflight[i].op = "register_user"
                              THEN RegisterOrResetFailed(Store, "Registration failed")
                              ELSE RegisterOrResetFailed(Store, "Reset failed")]

\* logout_user up to its POST /api/auth/logout; without a token it clears at once
LogoutUser ==
    /\ UNCHANGED <<serverVars, guest>>
    /\ IF Store.auth_token = Null
       THEN client' = [client EXCEPT !.store = LoggedOut(Store), !.logged_out = TRUE]
       ELSE /\ CanStart
            /\ client' = [client EXCEPT
                            !.inflight = Append(Inflight, [op |-> "logout_user",
                                                           auth_token |-> Store.auth_token])]

\* the response to POST /api/auth/logout, or its failure, which is ignored
LogoutUserResponse(i) ==
    /\ Inflight[i].op = "logout_user"
    /\ UNCHANGED <<serverVars, guest>>
    /\ client' = [store |-> LoggedOut(Store),
                  inflight |-> RemoveAt(Inflight, i),
                  logged_out |-> TRUE]

\* update_user_profile(partialUser)
UpdateUserProfile(name) ==
    /\ UNCHANGED <<serverVars, guest>>
    /\ client' = SetStore([Store EXCEPT !.current_user =
                              IF Store.current_user # NullUser
                              THEN [f \in DOMAIN Store.current_user \cup {"name"} |->
                                       IF f = "name" THEN name ELSE Store.current_user[f]]
                              ELSE NullUser])

\* set_guest_mode(flag)
SetGuestMode(flag) ==
    /\ UNCHANGED <<serverVars, guest>>
    /\ client' = SetStore([Store EXCEPT !.is_guest = flag])

\* a page load: the actions in flight are gone and the store is the persisted one
Rehydrate ==
    /\ UNCHANGED <<serverVars, guest>>
    /\ client' = [client EXCEPT !.store = Partialize(Store), !.inflight = <<>>]

ClientNext ==
    \/ InitializeAuth
    \/ \E i \in InflightIds, ok \in BOOLEAN : InitializeAuthResponse(i, ok)
    \/ LoginUser
    \/ RegisterUser
    \/ ResetPasswordAction
    \/ \E i \in InflightIds, u \in ClientUsers : AuthActionSuccess(i, u)
    \/ \E i \in InflightIds : AuthActionFailure(i)
    \/ LogoutUser
    \/ \E i \in InflightIds : LogoutUserResponse(i)
    \/ \E name \in {"m"} : UpdateUserProfile(name)
    \/ \E flag \in BOOLEAN : SetGuestMode(flag)
    \/ Rehydrate

ClientSpec == Init /\ [][ClientNext]_vars

\* ------------------------------------------------------ the guest dashboard
\* UV_GuestDashboard: the state of its useState calls is the record guest. React renders
\* between two events, so every handler sees the state the event before it left. While
\* loading is true the component renders a spinner only and no handler can be called.
\* crypto.randomUUID() hands out ids no guest task carried before. The form is taken to
\* pass createTaskInputSchema on the fields it carries.
GuestLimit == 5
MaxGuestIds == 6        \* guest task ids handed out in one behaviour
MaxGuestEvents == 8     \* buttons the guest presses in one behaviour

\* a button can be pressed: the component is not rendering its spinner
CanAct == ~guest.loading /\ guest.events < MaxGuestEvents
Pressed(g) == [g EXCEPT !.events = @ + 1]

GuestIds == <<"g1", "g2", "g3", "g4", "g5", "g6">>
GuestTasks == guest.tasks_list
GuestTaskIds == {GuestTasks[k].task_id : k \in 1..Len(GuestTasks)}
GuestPos(id) == CHOOSE k \in 1..Len(GuestTasks) : GuestTasks[k].task_id = id
Selected == Range(guest.selected_tasks)

RECURSIVE SelectSeq2(_, _)
\* Array.prototype.filter over ids
SelectSeq2(s, keep) ==
    IF s = <<>> THEN <<>>
    ELSE IF Head(s) \in keep THEN <<Head(s)>> \o SelectSeq2(Tail(s), keep)
    ELSE SelectSeq2(Tail(s), keep)

RECURSIVE FilterTasks(_, _)
\* prev.filter(t => !drop.includes(t.task_id))
FilterTasks(list, drop) ==
    IF list = <<>> THEN <<>>
    ELSE IF Head(list).task_id \in drop THEN FilterTasks(Tail(list), drop)
    ELSE <<Head(list)>> \o FilterTasks(Tail(list), drop)

\* createTaskInputSchema.safeParse(modals_state.form_data).success
GuestFormValid(title) == Len(title) >= 1 /\ Len(title) <= TitleMax

\* the check let the sixth task in
CheckGuestLimitAboveFive == Len(GuestTasks) <= GuestLimit

\* checkGuestLimit(): stats.guest_count >= 5 refuses
CheckGuestLimit == ~(Len(GuestTasks) >= GuestLimit)

CanIssueGuestId == guest.issued < MaxGuestIds /\ guest.issued < Len(GuestIds)
FreshGuestId == GuestIds[guest.issued + 1]

\* the Add button of the form: addTask up to its 500 ms wait
AddTask(title) ==
    /\ CanAct
    /\ UNCHANGED <<serverVars, client>>
    /\ IF ~GuestFormValid(title)
       THEN guest' = Pressed(guest)
       ELSE IF ~CheckGuestLimit
       THEN guest' = [Pressed(guest) EXCEPT !.limit_modal_open = TRUE]
       ELSE /\ CanIssueGuestId
            /\ guest' = [Pressed(guest) EXCEPT
                           !.loading = TRUE,
                           !.issued = @ + 1,
                           !.pending = [kind |-> "add",
                                        task |-> [task_id |-> FreshGuestId, title |-> title,
                                                  status |-> "incomplete",
                                                  order_index |-> Len(GuestTasks)]]]

\* the timer of addTask fires: the task is appended to the list as it is now
AddTaskDone ==
    /\ guest.loading /\ guest.pending.kind = "add"
    /\ UNCHANGED <<serverVars, client>>
    /\ guest' = [guest EXCEPT !.tasks_list = Append(@, guest.pending.task),
                              !.pending = NoPending, !.loading = FALSE]

\* Edit, then the Update button of the form: updateTask up to its 500 ms wait
UpdateGuestTask(id, title) ==
    /\ CanAct
    /\ id \in GuestTaskIds
    /\ UNCHANGED <<serverVars, client>>
    /\ IF ~GuestFormValid(title)
       THEN guest' = Pressed(guest)
       ELSE guest' = [Pressed(guest) EXCEPT !.loading = TRUE,
                                   !.pending = [kind |-> "edit", task_id |-> id,
                                                title |-> title]]

\* the timer of updateTask fires
UpdateGuestTaskDone ==
    /\ guest.loading /\ guest.pending.kind = "edit"
    /\ UNCHANGED <<serverVars, client>>
    /\ guest' = [guest EXCEPT
                   !.tasks_list = [k \in 1..Len(GuestTasks) |->
                                      IF GuestTasks[k].task_id = guest.pending.task_id
                                      THEN [GuestTasks[k] EXCEPT !.title = guest.pending.title]
                                      ELSE GuestTasks[k]],
                   !.pending = NoPending, !.loading = FALSE]

\* toggleStatus(id)
GuestToggleStatus(id) ==
    /\ CanAct
    /\ id \in GuestTaskIds
    /\ UNCHANGED <<serverVars, client>>
    /\ guest' = [Pressed(guest) EXCEPT
                   !.tasks_list[GuestPos(id)].status =
                       IF @ = "incomplete" THEN "completed" ELSE "incomplete"]

\* deleteTask(id): opens the confirm modal
GuestDeleteTask(id) ==
    /\ CanAct
    /\ id \in GuestTaskIds
    /\ UNCHANGED <<serverVars, client>>
    /\ guest' = [Pressed(guest) EXCEPT
                   !.confirm_modal = [open |-> TRUE, type |-> "delete", task_id |-> id,
                                      count |-> 0],
                   !.chosen = "deleteTask"]

\* duplicateTask(id)
GuestDuplicateTask(id) ==
    /\ CanAct
    /\ id \in GuestTaskIds
    /\ UNCHANGED <<serverVars, client>>
    /\ IF ~CheckGuestLimit
       THEN guest' = [Pressed(guest) EXCEPT !.limit_modal_open = TRUE]
       ELSE /\ CanIssueGuestId
            /\ guest' = [Pressed(guest) EXCEPT
                           !.tasks_list = Append(@, [task_id |-> FreshGuestId,
                                                     title |-> CopyOf \o
                                                               GuestTasks[GuestPos(id)].title,
                                                     status |-> "incomplete",
                                                     order_index |-> Len(GuestTasks)]),
                           !.issued = @ + 1]

\* bulkComplete() and bulkDelete(): both open the confirm modal with the same state
BulkModal == [open |-> TRUE, type |-> "bulk", task_id |-> Null,
              count |-> Len(guest.selected_tasks)]

GuestBulkComplete ==
    /\ CanAct
    /\ guest.selected_tasks # <<>>
    /\ UNCHANGED <<serverVars, client>>
    /\ guest' = [Pressed(guest) EXCEPT !.confirm_modal = BulkModal, !.chosen = "bulkComplete"]

GuestBulkDelete ==
    /\ CanAct
    /\ guest.selected_tasks # <<>>
    /\ UNCHANGED <<serverVars, client>>
    /\ guest' = [Pressed(guest) EXCEPT !.confirm_modal = BulkModal, !.chosen = "bulkDelete"]

\* confirmDelete, confirmBulkComplete, confirmBulkDelete: the list each leaves
ConfirmDeleteList == FilterTasks(GuestTasks, {guest.confirm_modal.task_id})
ConfirmBulkCompleteList ==
    [k \in 1..Len(GuestTasks) |->
        IF GuestTasks[k].task_id \in Selected
        THEN [GuestTasks[k] EXCEPT !.status = "completed"]
        ELSE GuestTasks[k]]
ConfirmBulkDeleteList == FilterTasks(GuestTasks, Selected)

\* count === undefined, which is what sends a bulk confirm to confirmBulkComplete;
\* an undefined count is written -1, which no length is
UndefinedCount == -1
CountUndefined(count) == count = UndefinedCount

\* the Confirm button of the modal:
\* type === 'delete' ? confirmDelete
\*   : type === 'bulk' ? (count === undefined ? confirmBulkComplete : confirmBulkDelete)
GuestConfirm ==
    /\ CanAct
    /\ guest.confirm_modal.open
    /\ UNCHANGED <<serverVars, client>>
    /\ IF guest.confirm_modal.type = "delete"
       THEN IF guest.confirm_modal.task_id = Null
            THEN guest' = Pressed(guest)
            ELSE guest' = [Pressed(guest) EXCEPT
                             !.tasks_list = ConfirmDeleteList,
                             !.selected_tasks =
                                 SelectSeq2(@, Selected \ {guest.confirm_modal.task_id}),
                             !.confirm_modal = ClosedConfirm,
                             !.chosen = "none"]
       ELSE IF CountUndefined(guest.confirm_modal.count)
       THEN guest' = [Pressed(guest) EXCEPT !.tasks_list = ConfirmBulkCompleteList,
                                   !.selected_tasks = <<>>,
                                   !.confirm_modal = ClosedConfirm,
                                   !.chosen = "none"]
       ELSE guest' = [Pressed(guest) EXCEPT !.tasks_list = ConfirmBulkDeleteList,
                                   !.selected_tasks = <<>>,
                                   !.confirm_modal = ClosedConfirm,
                                   !.chosen = "none"]

\* the Cancel button of the modal
GuestCancel ==
    /\ CanAct
    /\ guest.confirm_modal.open
    /\ UNCHANGED <<serverVars, client>>
    /\ guest' = [Pressed(guest) EXCEPT !.confirm_modal = ClosedConfirm, !.chosen = "none"]

\* toggleSelect(id, checked): the checkbox of a row
ToggleSelect(id) ==
    /\ CanAct
    /\ id \in GuestTaskIds
    /\ UNCHANGED <<serverVars, client>>
    /\ guest' = [Pressed(guest) EXCEPT
                   !.selected_tasks = IF id \in Selected
                                      THEN SelectSeq2(@, Selected \ {id})
                                      ELSE Append(@, id)]

\* handleDrop: the dragged row is moved to the place of the target row, then
\* reorderTasks numbers the rows 0..n-1
MoveTo(list, from, to) ==
    LET without == SubSeq(list, 1, from - 1) \o SubSeq(list, from + 1, Len(list))
    IN SubSeq(without, 1, to - 1) \o <<list[from]>> \o SubSeq(without, to, Len(without))

HandleDrop(dragged_id, target_id) ==
    /\ CanAct
    /\ dragged_id \in GuestTaskIds /\ target_id \in GuestTaskIds
    /\ dragged_id # target_id
    /\ UNCHANGED <<serverVars, client>>
    /\ LET moved == MoveTo(GuestTasks, GuestPos(dragged_id), GuestPos(target_id))
       IN guest' = [Pressed(guest) EXCEPT
                      !.tasks_list = [k \in 1..Len(moved) |->
                                         [moved[k] EXCEPT !.order_index = k - 1]]]

\* closeLimitModal()
CloseLimitModal ==
    /\ guest.limit_modal_open
    /\ CanAct
    /\ UNCHANGED <<serverVars, client>>
    /\ guest' = [Pressed(guest) EXCEPT !.limit_modal_open = FALSE]

GuestTitle == <<"a">>
EditedTitle == <<"b">>

\* the row the guest acts on: the last of the list; a drag takes it to the top
ActedOn == IF GuestTasks = <<>> THEN {} ELSE {GuestTasks[Len(GuestTasks)].task_id}
TopRow == IF GuestTasks = <<>> THEN {} ELSE {GuestTasks[1].task_id}

GuestNext ==
    \/ \E title \in {GuestTitle, <<>>} : AddTask(title)
    \/ AddTaskDone
    \/ \E id \in ActedOn : UpdateGuestTask(id, EditedTitle)
    \/ UpdateGuestTaskDone
    \/ \E id \in ActedOn : GuestToggleStatus(id)
    \/ \E id \in ActedOn : GuestDeleteTask(id)
    \/ \E id \in ActedOn : GuestDuplicateTask(id)
    \/ GuestBulkComplete
    \/ GuestBulkDelete
    \/ GuestConfirm
    \/ GuestCancel
    \/ \E id \in ActedOn : ToggleSelect(id)
    \/ \E dragged_id \in ActedOn, target_id \in TopRow : HandleDrop(dragged_id, target_id)
    \/ CloseLimitModal

GuestSpec == Init /\ [][GuestNext]_vars

\* ------------------------------------------------------------- properties
\* a step that serves a request; last' is that request and its response
RequestStep == served' = served + 1

IsBulkCompleteReq(l) == l.method = "POST" /\ l.path = <<"tasks", "bulk-complete">>
IsBulkDeleteReq(l) == l.method = "DELETE" /\ l.path = <<"tasks", "bulk-delete">>
IsReorderReq(l) == l.method = "PATCH" /\ l.path = <<"tasks", "reorder">>
IsDuplicateReq(l) == l.method = "POST" /\ Len(l.path) = 3 /\ l.path[3] = "duplicate"
IsShareReq(l) == l.method = "POST" /\ Len(l.path) = 3 /\ l.path[3] = "share"
IsCreateReq(l) == l.method = "POST" /\ l.path = <<"tasks">>
IsListReq(l) == l.method = "GET" /\ l.path = <<"tasks">>
IsPublicReq(l) == l.method = "GET" /\ Len(l.path) = 3 /\ l.path[1] = "public"

\* the id list of a bulk or reorder request
IdListOf(l) == IF IsReorderReq(l) THEN l.body.order ELSE l.body.task_ids

IsError(l) == l.status >= 400

\* C1: a bulk-complete, bulk-delete or reorder request whose id list names an id that is
\* not a task of the caller is answered with an error, and the tasks table after it is
\* the table before it: no row of any owner changed, none deleted.
C1_AllOrNothingRejection ==
    [][ (/\ RequestStep
         /\ IsBulkCompleteReq(last') \/ IsBulkDeleteReq(last') \/ IsReorderReq(last')
         /\ \E id \in Range(IdListOf(last')) : id \notin Owned(last'.user))
        => (IsError(last') /\ tasks' = tasks) ]_vars

\* C1 witness: bulk-complete was refused by its ownership count for a list that holds
\* a task of the caller and a task of another owner.
C1_Witness ==
    /\ IsBulkCompleteReq(last)
    /\ last.handler = "bulkComplete" /\ last.status = 400
    /\ last.res = Err("INVALID_TASK_ACCESS")
    /\ \E id \in Range(last.body.task_ids) : id \in Owned(last.user)
    /\ \E id \in Range(last.body.task_ids) : id \in Ids /\ id \notin Owned(last.user)


\* order lists every task of u exactly once
IsPermutationOfOwned(order, u) ==
    /\ Len(order) = Cardinality(Owned(u))
    /\ Range(order) = Owned(u)

\* C2: a reorder request whose list is a permutation of all the caller's task ids
\* succeeds, and afterwards the task at (0-based) position i of the list has order_index i.
C2_ReorderPermutation ==
    [][ (/\ RequestStep
         /\ IsReorderReq(last')
         /\ IsPermutationOfOwned(last'.body.order, last'.user))
        => (/\ last'.status = 200
            /\ \A i \in 1..Len(last'.body.order) :
                  /\ last'.body.order[i] \in DOMAIN tasks'
                  /\ tasks'[last'.body.order[i]].order_index = i - 1) ]_vars

\* The reorder handler itself, were it the one to run: for a permutation of the caller's
\* tasks it passes the ownership count and writes each position.
ReorderHandlerAssignsPositions ==
    \A u \in Callers, order \in IdLists :
        IsPermutationOfOwned(order, u) =>
            /\ ~AccessDenied(order, u)
            /\ \A i \in 1..Len(order) : Reordered(order, u)[order[i]].order_index = i - 1

\* C3: a bulk-complete (bulk-delete) request with a non-empty list of ids that are all
\* tasks of the caller succeeds, every listed task ends completed (is gone), and
\* updated_count (deleted_count) is the number of ids in the request.
C3_BulkAllOwned ==
    [][ (/\ RequestStep
         /\ IsBulkCompleteReq(last') \/ IsBulkDeleteReq(last')
         /\ Len(last'.body.task_ids) > 0
         /\ Range(last'.body.task_ids) \subseteq Owned(last'.user))
        => (/\ last'.status = 200
            /\ IF IsBulkCompleteReq(last')
               THEN /\ \A id \in Range(last'.body.task_ids) :
                          id \in DOMAIN tasks' /\ tasks'[id].status = "completed"
                    /\ last'.handler = "bulkComplete"
                    /\ last'.res.updated_count = Len(last'.body.task_ids)
               ELSE /\ \A id \in Range(last'.body.task_ids) : id \notin DOMAIN tasks'
                    /\ last'.handler = "bulkDelete"
                    /\ last'.res.deleted_count = Len(last'.body.task_ids)) ]_vars

\* no id twice
Distinct(ids) == \A i, j \in 1..Len(ids) : i # j => ids[i] # ids[j]

\* What bulk-complete does keep: for a list of distinct ids, all tasks of the caller,
\* it succeeds, completes each and counts them.
BulkCompleteDistinctOwned ==
    [][ (/\ RequestStep
         /\ IsBulkCompleteReq(last')
         /\ Len(last'.body.task_ids) > 0
         /\ Distinct(last'.body.task_ids)
         /\ Range(last'.body.task_ids) \subseteq Owned(last'.user))
        => (/\ last'.status = 200
            /\ \A id \in Range(last'.body.task_ids) :
                  id \in DOMAIN tasks' /\ tasks'[id].status = "completed"
            /\ last'.res.updated_count = Len(last'.body.task_ids)) ]_vars


C5_PublicFetch ==
    [][ (RequestStep /\ IsPublicReq(last'))
        => LET id == last'.path[3]
               shared == /\ id \in Ids
                         /\ ~tasks[id].share_expires_at.null
                         /\ ParseDate(tasks[id].share_expires_at) > now
           IN /\ (last'.status = 200) <=> shared
              /\ last'.status = 200 =>
                    /\ "user_id" \notin DOMAIN last'.res
                    /\ "order_index" \notin DOMAIN last'.res
                    /\ last'.res.task_id = id
              /\ last'.status # 200 =>
                    last'.status = 404 /\ last'.res = Err("SHARED_TASK_NOT_FOUND") ]_vars

\* What the public fetch does keep: the same statement for tasks whose stored expiry was
\* written by the share handler (Date.toISOString(), with milliseconds) or is null.
PublicFetchOfShareWrittenExpiry ==
    [][ (/\ RequestStep /\ IsPublicReq(last')
         /\ last'.path[3] \in Ids =>
               (tasks[last'.path[3]].share_expires_at.null
                  \/ tasks[last'.path[3]].share_expires_at.frac))
        => LET id == last'.path[3]
               shared == /\ id \in Ids
                         /\ ~tasks[id].share_expires_at.null
                         /\ ParseDate(tasks[id].share_expires_at) > now
           IN /\ (last'.status = 200) <=> shared
              /\ last'.status = 200 =>
                    /\ "user_id" \notin DOMAIN last'.res
                    /\ "order_index" \notin DOMAIN last'.res
              /\ last'.status # 200 =>
                    last'.status = 404 /\ last'.res = Err("SHARED_TASK_NOT_FOUND") ]_vars

\* the task rows a response carries
ReturnedRows(l) ==
    IF l.status \notin {200, 201} THEN {}
    ELSE IF l.handler \in {"createTask", "getTask", "updateTask", "duplicateTask",
                           "toggleStatus"} THEN {l.res}
    ELSE IF l.handler = "listTasks" THEN Range(l.res.tasks)
    ELSE IF l.handler = "reorder" THEN Range(l.res)
    ELSE {}

\* C6: a request authenticated as A leaves every task of another owner as it was (not
\* changed, not deleted), returns only rows owned by A and creates only rows owned by A;
\* and no step changes the owner of a task.
C6_OwnerIsolation ==
    [][ /\ \A id \in Ids \cap DOMAIN tasks' : tasks'[id].user_id = tasks[id].user_id
        /\ (RequestStep /\ last'.user \in Users) =>
              /\ \A id \in Ids : tasks[id].user_id # last'.user =>
                    id \in DOMAIN tasks' /\ tasks'[id] = tasks[id]
              /\ \A id \in DOMAIN tasks' \ Ids : tasks'[id].user_id = last'.user
              /\ \A r \in ReturnedRows(last') : r.user_id = last'.user ]_vars

\* C6 witness: an update that names a task of another owner, and asks for a new owner,
\* was answered 404 while that task exists.
C6_Witness ==
    /\ last.handler = "updateTask" /\ last.status = 404
    /\ last.path[2] \in Ids
    /\ tasks[last.path[2]].user_id # last.user
    /\ Has(last.body, "title")


\* what C7 asks of a duplicate request for task T = last'.path[2] of the caller
DuplicateCreatesCopy ==
    LET id == last'.path[2]
        u == last'.user
        T == tasks[id]
        new == DOMAIN tasks' \ Ids
    IN /\ last'.status = 201
       /\ \E n \in new :
             /\ new = {n}
             /\ last'.res = tasks'[n]
             /\ tasks'[n].task_id = n
             /\ tasks'[n].user_id = u
             /\ tasks'[n].title = CopyOf \o T.title
             /\ tasks'[n].description = T.description
             /\ tasks'[n].due_date = T.due_date
             /\ tasks'[n].priority = T.priority
             /\ tasks'[n].category = T.category
             /\ tasks'[n].tags = T.tags
             /\ tasks'[n].status = "incomplete"
             /\ tasks'[n].share_expires_at = NullTs
             /\ \A o \in Owned(u) : tasks'[n].order_index > tasks[o].order_index
       /\ \A o \in Ids : o \in DOMAIN tasks' /\ tasks'[o] = tasks[o]

\* C7: duplicating a task T of the caller creates one new task with a fresh id, title
\* "Copy of " + T.title, T's description, due_date, priority, category and tags, status
\* incomplete, share_expires_at null and an order_index above every order_index the owner
\* had; T and every other task stay as they were.
C7_Duplicate ==
    [][ (/\ RequestStep
         /\ IsDuplicateReq(last')
         /\ OwnsTask(last'.user, last'.path[2]))
        => DuplicateCreatesCopy ]_vars

\* The same, while the owner's largest order_index is below the largest INTEGER.
DuplicateBelowLargestInteger ==
    [][ (/\ RequestStep
         /\ IsDuplicateReq(last')
         /\ OwnsTask(last'.user, last'.path[2])
         /\ MaxOrder(last'.user) < MaxInt32)
        => DuplicateCreatesCopy ]_vars

\* a duplicate of a completed or shared task came out incomplete and unshared
DuplicateOfSharedTask ==
    /\ IsDuplicateReq(last) /\ last.status = 201
    /\ last.path[2] \in Ids
    /\ ~tasks[last.path[2]].share_expires_at.null
    /\ last.res.share_expires_at.null

\* a create request whose body is a title of 1 to 255 characters and nothing else
OnlyTitle(l) ==
    /\ IsCreateReq(l)
    /\ DOMAIN l.body = {"title"}
    /\ Len(l.body.title) >= 1 /\ Len(l.body.title) <= TitleMax

\* what C8 asks of such a request
CreateAppendsPlainTask ==
    LET u == last'.user
        new == DOMAIN tasks' \ Ids
    IN /\ last'.status = 201
       /\ \E n \in new :
             /\ new = {n}
             /\ last'.res = tasks'[n]
             /\ tasks'[n].user_id = u
             /\ tasks'[n].title = last'.body.title
             /\ tasks'[n].status = "incomplete"
             /\ tasks'[n].description = NullText
             /\ tasks'[n].due_date = NullTs
             /\ tasks'[n].priority = Null
             /\ tasks'[n].category = Null
             /\ tasks'[n].tags = NullText
             /\ IF Owned(u) = {} THEN tasks'[n].order_index = 0
                ELSE tasks'[n].order_index - 1 = MaxOrder(u)

\* C8: creating a task for owner U with only a title yields a task of U with status
\* incomplete, description, due_date, priority, category and tags null, and order_index
\* one above the largest order_index of U's tasks, or 0 when U has none.
C8_CreateOnlyTitle ==
    [][ (RequestStep /\ OnlyTitle(last')) => CreateAppendsPlainTask ]_vars

\* The same, while the owner's largest order_index is below the largest INTEGER.
CreateOnlyTitleBelowLargestInteger ==
    [][ (RequestStep /\ OnlyTitle(last') /\ MaxOrder(last'.user) < MaxInt32)
        => CreateAppendsPlainTask ]_vars

\* a title-only create by an owner without tasks got order_index 0
CreateOnlyTitleFirstTask ==
    /\ OnlyTitle(last) /\ last.status = 201
    /\ last.res.order_index = 0
    /\ Owned(last.user) = {last.res.task_id}

\* a create request that supplies a non-negative order_index next to a title
SuppliesOrderIndex(l) ==
    /\ IsCreateReq(l)
    /\ DOMAIN l.body = {"title", "order_index"}
    /\ Len(l.body.title) >= 1 /\ Len(l.body.title) <= TitleMax
    /\ l.body.order_index >= 0

\* C9: when the caller of create supplies an order_index, any non-negative integer with 0
\* included, the task is created and stored with exactly that order_index.
C9_SuppliedOrderIndex ==
    [][ (RequestStep /\ SuppliesOrderIndex(last'))
        => /\ last'.status = 201
           /\ last'.res.order_index = last'.body.order_index
           /\ last'.res.task_id \in DOMAIN tasks'
           /\ tasks'[last'.res.task_id].order_index = last'.body.order_index ]_vars

\* The same for a supplied order_index above 0.
SuppliedPositiveOrderIndex ==
    [][ (RequestStep /\ SuppliesOrderIndex(last') /\ last'.body.order_index > 0)
        => /\ last'.status = 201
           /\ last'.res.order_index = last'.body.order_index
           /\ last'.res.task_id \in DOMAIN tasks'
           /\ tasks'[last'.res.task_id].order_index = last'.body.order_index ]_vars

\* a supplied order_index of 0 was stored as another number
SuppliedZeroStoredAsMax ==
    /\ SuppliesOrderIndex(last) /\ last.body.order_index = 0
    /\ last.status = 201 /\ last.res.order_index # 0


\* sub occurs in s as a run of consecutive characters
Contains(s, sub) ==
    \E i \in 0..(Len(s) - Len(sub)) : SubSeq(s, i + 1, i + Len(sub)) = sub

\* a text column holds sub; a null column holds nothing
ColumnContains(col, sub) == col # NullText /\ Contains(col, sub)
ColumnContainsNoCase(col, sub) == col # NullText /\ Contains(Lower(col), Lower(sub))

\* the filters of a list request as the contract words them: status exact or "all",
\* category and priority exact, tag a substring of tags, search text a case-insensitive
\* substring of title or description or tags
Satisfies(row, q) ==
    /\ (StrGiven(q, "filter_status") /\ q.filter_status # "all")
          => row.status = q.filter_status
    /\ StrGiven(q, "filter_category") => row.category = q.filter_category
    /\ StrGiven(q, "filter_priority") => row.priority = q.filter_priority
    /\ TextGiven(q, "filter_tags") => ColumnContains(row.tags, q.filter_tags)
    /\ TextGiven(q, "search_query") =>
          \/ ColumnContainsNoCase(row.title, q.search_query)
          \/ ColumnContainsNoCase(row.description, q.search_query)
          \/ ColumnContainsNoCase(row.tags, q.search_query)

\* the limit of a list request as the contract words it: 10 when absent, clamped into
\* [1, 1000] otherwise
ClampedLimit(q) ==
    Min(Max(IF Has(q, "limit") THEN q.limit ELSE DefaultLimit, MinLimit), MaxLimit)

\* what C10 asks of a list request
ListReturnsSatisfying ==
    LET q == last'.body
        u == last'.user
        satisfying == {id \in Ids : tasks[id].user_id = u /\ Satisfies(tasks[id], q)}
    IN /\ last'.status = 200
       /\ \A i \in 1..Len(last'.res.tasks) :
             LET r == last'.res.tasks[i]
             IN /\ r.task_id \in Ids /\ r = tasks[r.task_id]
                /\ r.user_id = u
                /\ Satisfies(r, q)
       /\ last'.res.total = Cardinality(satisfying)
       /\ Len(last'.res.tasks) <= Min(ClampedLimit(q), last'.res.total)

\* C10: for every owner U and every combination of supplied status, category, priority,
\* tag and search filters the task list returns only tasks of U that satisfy every
\* supplied filter, total is the number of U's tasks that satisfy them whatever limit and
\* offset are, and at most min(limit, total) tasks are returned.
C10_ListFilters ==
    [][ (RequestStep /\ IsListReq(last') /\ last'.user \in Users)
        => ListReturnsSatisfying ]_vars

\* a list request with no LIKE wildcard in its tag and search texts, a status filter
\* other than "all" and a limit other than 0
PlainListQuery(q) ==
    /\ Has(q, "filter_tags") => Range(q.filter_tags) \cap {"%", "_", "\\"} = {}
    /\ Has(q, "search_query") => Range(q.search_query) \cap {"%", "_", "\\"} = {}
    /\ Has(q, "filter_status") => q.filter_status # "all"
    /\ Has(q, "limit") => q.limit # 0

\* The same for such requests.
PlainListFilters ==
    [][ (RequestStep /\ IsListReq(last') /\ last'.user \in Users
           /\ PlainListQuery(last'.body))
        => ListReturnsSatisfying ]_vars

\* a search for "_" returned a task that holds no "_"
SearchUnderscoreMatchesAll ==
    /\ IsListReq(last) /\ last.status = 200
    /\ Has(last.body, "search_query") /\ last.body.search_query = <<"_">>
    /\ \E i \in 1..Len(last.res.tasks) :
          ~ColumnContainsNoCase(last.res.tasks[i].title, <<"_">>)

\* the query q with the parameter f left out
WithoutParam(q, f) == [g \in DOMAIN q \ {f} |-> q[g]]

\* a list request whose filter_status is "all"
IsStatusAllReq(l) ==
    /\ IsListReq(l) /\ l.user \in Users
    /\ Has(l.body, "filter_status") /\ l.body.filter_status = "all"

\* C11: a list request whose status filter is "all" applies no status restriction: it
\* is answered with the total and the tasks of the same request without a status filter.
C11_StatusAll ==
    [][ (RequestStep /\ IsStatusAllReq(last'))
        => LET u == last'.user
               q == WithoutParam(last'.body, "filter_status")
           IN /\ last'.status = 200
              /\ last'.res.total = Total(u, q)
              /\ \E s \in SortedBy(tasks, Matching(u, q), SortField(q), SortDirection(q)) :
                    last'.res.tasks = Page(s, q) ]_vars

\* a list request with filter_status "all" by an owner who has tasks came back empty
StatusAllReturnsNothing ==
    /\ IsStatusAllReq(last) /\ last.status = 200
    /\ last.res.total = 0 /\ last.res.tasks = <<>>
    /\ Owned(last.user) # {}

\* No list request with filter_status "all" returns a task.
StatusAllIsAStatusValue ==
    [][ (RequestStep /\ IsStatusAllReq(last'))
        => (last'.res.total = 0 /\ last'.res.tasks = <<>>) ]_vars

\* the listing the dashboard shows: tasksList.filter(t => t.status !== 'archived')
FilteredTasks(tasksList) ==
    SelectSeq(tasksList, LAMBDA t : t.status # "archived")

\* a list request with no status filter / with the status filter archived
IsDefaultListing(l) ==
    IsListReq(l) /\ l.user \in Users /\ ~StrGiven(l.body, "filter_status")
IsArchivedListing(l) ==
    /\ IsListReq(l) /\ l.user \in Users
    /\ DOMAIN l.body = {"filter_status"} /\ l.body.filter_status = "archived"

\* C12: an archived task is not in the answer to a listing requested with no status
\* filter, and every archived task of the caller is in the answer to a listing filtered
\* for status archived (within the first page of 10).
C12_ArchivedListing ==
    [][ RequestStep =>
          /\ IsDefaultListing(last') =>
                \A i \in 1..Len(last'.res.tasks) : last'.res.tasks[i].status # "archived"
          /\ IsArchivedListing(last') =>
                \A id \in Owned(last'.user) : tasks[id].status = "archived" =>
                    \E i \in 1..Len(last'.res.tasks) : last'.res.tasks[i] = tasks[id] ]_vars

\* The second half alone: the server's answer to a listing filtered for archived holds
\* every archived task of the caller.
ArchivedFilterReturnsArchived ==
    [][ (RequestStep /\ IsArchivedListing(last')) =>
          \A id \in Owned(last'.user) : tasks[id].status = "archived" =>
              \E i \in 1..Len(last'.res.tasks) : last'.res.tasks[i] = tasks[id] ]_vars

\* a listing with no status filter returned an archived task
DefaultListingShowsArchived ==
    /\ IsDefaultListing(last) /\ last.status = 200
    /\ \E i \in 1..Len(last.res.tasks) : last.res.tasks[i].status = "archived"

\* What the dashboard shows of a listing filtered for archived: nothing.
DashboardDropsArchivedListing ==
    [][ (RequestStep /\ IsArchivedListing(last')) =>
          FilteredTasks(last'.res.tasks) = <<>> ]_vars

\* the server returned an archived task to a listing filtered for archived
ArchivedListingNotEmpty ==
    /\ IsArchivedListing(last) /\ last.status = 200 /\ last.res.tasks # <<>>

IsToggleReq(l) == l.method = "PATCH" /\ Len(l.path) = 3 /\ l.path[3] = "toggle-status"

\* the body of a toggle request names one of the two targets
NamesToggleTarget(b) == Has(b, "status") /\ b.status \in {"incomplete", "completed"}

\* C13: a toggle-status request whose status is missing or is anything but incomplete or
\* completed (archived included) is answered 400 and the tasks stay as they were; with a
\* valid target on a task of the caller the task gets that status and updated_at = now
\* and the answer is the updated task.
C13_ToggleTargets ==
    [][ (RequestStep /\ IsToggleReq(last'))
        => LET id == last'.path[2]
               b == last'.body
           IN /\ ~NamesToggleTarget(b) => (last'.status = 400 /\ tasks' = tasks)
              /\ (NamesToggleTarget(b) /\ OwnsTask(last'.user, id)) =>
                    /\ last'.status = 200
                    /\ id \in DOMAIN tasks'
                    /\ tasks'[id].status = b.status
                    /\ tasks'[id].updated_at = ToISOString(now)
                    /\ last'.res = tasks'[id] ]_vars

\* C13 witness: a toggle to completed was answered 200 with the task completed and its
\* updated_at later than its created_at.
C13_Witness ==
    /\ IsToggleReq(last) /\ last.status = 200
    /\ last.body.status = "completed"
    /\ last.res.status = "completed"
    /\ last.res.updated_at.t > last.res.created_at.t

\* a toggle request naming archived was answered 400
ToggleArchivedRejected ==
    /\ IsToggleReq(last) /\ last.status = 400
    /\ Has(last.body, "status") /\ last.body.status = "archived"
    /\ OwnsTask(last.user, last.path[2])

\* C14: every successful toggle-status transition has its prior status and its resulting
\* status in {incomplete, completed}; toggle-status never changes the status of an
\* archived task.
C14_ToggleOnlyBetweenTwo ==
    [][ (RequestStep /\ IsToggleReq(last') /\ last'.status = 200)
        => LET id == last'.path[2]
           IN /\ tasks[id].status \in {"incomplete", "completed"}
              /\ tasks'[id].status \in {"incomplete", "completed"} ]_vars

\* The resulting status alone is always one of the two.
ToggleResultIsOneOfTwo ==
    [][ (RequestStep /\ IsToggleReq(last') /\ last'.status = 200)
        => tasks'[last'.path[2]].status \in {"incomplete", "completed"} ]_vars

\* No toggle request is refused because of the status the task has.
ToggleIgnoresPriorStatus ==
    [][ (RequestStep /\ IsToggleReq(last') /\ NamesToggleTarget(last'.body)
           /\ OwnsTask(last'.user, last'.path[2]))
        => last'.status = 200 ]_vars

\* a request for PATCH /api/tasks/{id}
IsUpdateReq(l) ==
    l.method = "PATCH" /\ Len(l.path) = 2 /\ l.path[1] = "tasks" /\ l.path[2] # "reorder"

\* what C15 asks of an update request
PartialUpdateApplied ==
    LET id == last'.path[2]
        b == last'.body
        supplied == DOMAIN b \cap AllowedFields
    IN IF ~OwnsTask(last'.user, id)
       THEN last'.status = 404 /\ tasks' = tasks
       ELSE IF supplied = {}
       THEN last'.status = 400 /\ tasks' = tasks
       ELSE /\ last'.status = 200
            /\ DOMAIN tasks' = Ids
            /\ \A f \in supplied : tasks'[id][f] = b[f]
            /\ \A f \in DOMAIN tasks[id] \ (supplied \cup {"updated_at"}) :
                  tasks'[id][f] = tasks[id][f]
            /\ tasks'[id].updated_at = ToISOString(now)
            /\ \A o \in Ids \ {id} : tasks'[o] = tasks[o]
            /\ last'.res = tasks'[id]

\* C15: a partial update of a task of the caller whose body holds at least one mutable
\* field sets exactly the supplied fields, leaves every other field as it was and sets
\* updated_at to now; a body with no mutable field is answered 400 and a task id the
\* caller does not own 404, and in both cases no task changes.
C15_PartialUpdate ==
    [][ (RequestStep /\ IsUpdateReq(last')) => PartialUpdateApplied ]_vars

\* The same for bodies that put no null into title or status.
PartialUpdateOfNonNull ==
    [][ (RequestStep /\ IsUpdateReq(last') /\ ~UpdateViolatesNotNull(last'.body))
        => PartialUpdateApplied ]_vars

\* an update that supplies two mutable fields next to user_id was applied
PartialUpdateTwoFields ==
    /\ IsUpdateReq(last) /\ last.status = 200
    /\ DOMAIN last.body = {"user_id", "title", "priority"}
    /\ last.res.title = last.body.title /\ last.res.priority = last.body.priority
    /\ last.res.user_id = last.user /\ last.res.user_id # last.body.user_id

\* an update that sets title to null was answered 500
UpdateTitleNullFails ==
    /\ IsUpdateReq(last) /\ last.status = 500
    /\ Has(last.body, "title") /\ last.body.title = NullText

\* the domains of the data model for one stored task
TaskInDomain(row) ==
    /\ row.status \in {"incomplete", "completed", "archived"}
    /\ row.priority \in {"low", "medium", "high", Null}
    /\ row.title # NullText /\ Len(row.title) >= 1
    /\ row.order_index \in Nat

\* a body carries a value outside these domains
CarriesValueOutOfDomain(b) ==
    \/ Has(b, "status") /\ b.status \notin {"incomplete", "completed", "archived"}
    \/ Has(b, "priority") /\ b.priority \notin {"low", "medium", "high", Null}
    \/ Has(b, "title") /\ (b.title = NullText \/ Len(b.title) = 0)
    \/ Has(b, "order_index") /\ b.order_index \notin Nat

\* C16: every stored task has status in {incomplete, completed, archived}, priority in
\* {low, medium, high} or null, a non-empty title and a non-negative order_index, and
\* the last create, or update of a task of the caller, that carried a value outside
\* these domains was answered 400.
C16_DataDomains ==
    /\ \A id \in Ids : TaskInDomain(tasks[id])
    /\ (IsCreateReq(last) /\ CarriesValueOutOfDomain(last.body)) => last.status = 400
    /\ (IsUpdateReq(last) /\ OwnsTask(last.user, last.path[2])
          /\ CarriesValueOutOfDomain(last.body)) => last.status = 400

\* The part create keeps: a create with a value outside the domains is answered 400 and
\* a created task is inside them.
CreateKeepsDomains ==
    [][ (RequestStep /\ IsCreateReq(last'))
        => /\ CarriesValueOutOfDomain(last'.body) => (last'.status = 400 /\ tasks' = tasks)
           /\ \A id \in DOMAIN tasks' \ Ids : TaskInDomain(tasks'[id]) ]_vars

\* No update of a task of the caller is answered 400 because of a value it carries.
UpdateValidatesNothing ==
    [][ (RequestStep /\ IsUpdateReq(last') /\ OwnsTask(last'.user, last'.path[2])
           /\ DOMAIN last'.body \cap AllowedFields # {})
        => last'.status # 400 ]_vars

\* an update stored a priority outside the enumeration
InvalidPriorityStored ==
    /\ IsUpdateReq(last) /\ last.status = 200
    /\ last.body = [priority |-> "invalid"]
    /\ \E id \in Ids : tasks[id].priority = "invalid"

\* C17: no two tasks of the same owner have the same order_index.
C17_OrderIndexUnique ==
    \A a \in Ids : \A b \in Ids \ {a} :
        tasks[a].user_id = tasks[b].user_id => tasks[a].order_index # tasks[b].order_index

\* a create with a supplied order_index stored a number another task of the owner has
SuppliedOrderIndexCollides ==
    /\ IsCreateReq(last) /\ last.status = 201 /\ Has(last.body, "order_index")
    /\ \E o \in Owned(last.user) \ {last.res.task_id} :
          tasks[o].order_index = last.res.order_index

\* What the appending requests keep: a create without order_index, or a duplicate, gives
\* the new task an order_index no other task of the owner has.
AppendedOrderIndexIsNew ==
    [][ (RequestStep /\ last'.status = 201
           /\ (IsDuplicateReq(last') \/ (IsCreateReq(last') /\ ~Has(last'.body, "order_index"))))
        => \A o \in Owned(last'.user) : tasks[o].order_index # last'.res.order_index ]_vars

IsDeleteReq(l) ==
    l.method = "DELETE" /\ Len(l.path) = 2 /\ l.path[1] = "tasks" /\ l.path[2] # "bulk-delete"

\* C18: deleting, toggling, updating or sharing a task T leaves every other task as it
\* was, field by field; a delete removes T and nothing else, so the order_index values
\* of the remaining tasks stay; a toggle changes no field of T but status and updated_at.
C18_SingleTaskFrame ==
    [][ (RequestStep /\ (IsDeleteReq(last') \/ IsToggleReq(last') \/ IsUpdateReq(last')
                           \/ IsShareReq(last')))
        => LET id == last'.path[2]
           IN /\ \A o \in Ids \ {id} : o \in DOMAIN tasks' /\ tasks'[o] = tasks[o]
              /\ DOMAIN tasks' \subseteq Ids
              /\ (IsDeleteReq(last') /\ last'.status = 200) => DOMAIN tasks' = Ids \ {id}
              /\ (IsToggleReq(last') /\ last'.status = 200) =>
                    \A f \in DOMAIN tasks[id] \ {"status", "updated_at"} :
                        tasks'[id][f] = tasks[id][f] ]_vars

\* C18 witness: task_001 (order_index 1) was deleted and task_002 of the same owner is
\* all that owner has, still with order_index 2.
C18_Witness ==
    /\ IsDeleteReq(last) /\ last.status = 200
    /\ last.path[2] = "task_001"
    /\ Owned("user_001") = {"task_002"}
    /\ tasks["task_002"] = SeedTasks["task_002"]
    /\ tasks["task_002"].order_index = 2

\* the stored reset tokens of user u
TokensOf(u) == {r \in resets : r.user_id = u}

\* C19: each user has at most one stored password-reset token, whatever forgot-password
\* and reset-password requests have run and however their statements interleaved.
C19_OneTokenPerUser ==
    \A u \in DOMAIN users : Cardinality(TokensOf(u)) <= 1

\* two forgot-password calls for one user have both answered and both their tokens are
\* stored
TwoTokensForOneUser ==
    \E i \in CallIds : \E j \in CallIds \ {i} :
        /\ calls[i].op = "forgot" /\ calls[j].op = "forgot"
        /\ calls[i].pc = "done" /\ calls[j].pc = "done"
        /\ calls[i].user_id = calls[j].user_id /\ calls[i].user_id # NoUser
        /\ \E r \in resets : r.reset_token = calls[i].reset_token
        /\ \E r \in resets : r.reset_token = calls[j].reset_token

\* call i runs its UPDATE of the password in this step
SetsPassword(i) ==
    calls[i].op = "reset" /\ calls[i].pc = "update" /\ calls'[i].pc = "deleteToken"

\* a reset-password call with token t has set a password
UsedBefore(t) ==
    \E j \in CallIds :
        /\ calls[j].op = "reset" /\ calls[j].reset_token = t
        /\ calls[j].pc = "deleteToken" \/ (calls[j].pc = "done" /\ calls[j].status = 200)

\* token t is stored and its expires_at is after now
StoredUnexpired(t) ==
    \E r \in resets : r.reset_token = t /\ ~r.expires_at.null /\ r.expires_at.t > now

\* a reset-password call is taken in in this step
TakesResetCall ==
    Len(calls') = Len(calls) + 1 /\ calls'[Len(calls')].op = "reset"

\* C20: a reset token changes a password at most once and only while it is stored and
\* unexpired: a reset-password request with a stored token whose expires_at is after now
\* (and a password of 8 characters or more) is accepted, sets the password of the
\* token's user and deletes the token; a request with an unknown, superseded or expired
\* token is rejected and changes no password and no token; no password is set by a
\* token that is not stored any more or that has set a password before.
C20_TokenUsedOnce ==
    [][ /\ TakesResetCall =>
             LET c == calls'[Len(calls')] IN
             /\ users' = users /\ resets' = resets
             /\ (c.reset_token # NoToken /\ c.password # NoText
                   /\ ~PasswordTooShort(c.password)) =>
                   IF StoredUnexpired(c.reset_token)
                   THEN c.pc = "update"
                   ELSE c.pc = "done" /\ c.status = 400
        /\ \A i \in CallIds : SetsPassword(i) =>
             /\ \E r \in resets : r.reset_token = calls[i].reset_token
                                    /\ r.user_id = calls[i].user_id
             /\ ~UsedBefore(calls[i].reset_token)
             /\ users'[calls[i].user_id].password_hash = calls[i].password
        /\ users' # users => \E i \in CallIds : SetsPassword(i)
        /\ \A i \in CallIds :
             (calls[i].op = "reset" /\ calls[i].pc = "deleteToken" /\ calls'[i].pc = "done")
             => /\ calls'[i].status = 200
                /\ \A r \in resets' : r.reset_token # calls[i].reset_token ]_vars

\* two reset-password calls with one token have both set a password
TokenUsedTwice ==
    \E i \in CallIds : \E j \in CallIds \ {i} :
        /\ calls[i].op = "reset" /\ calls[j].op = "reset"
        /\ calls[i].reset_token = calls[j].reset_token
        /\ calls[i].pc = "done" /\ calls[i].status = 200
        /\ calls[j].pc = "done" /\ calls[j].status = 200

\* a token was used, and a later reset-password call with it was answered 400
SecondUseRejected ==
    \E i \in CallIds : \E j \in CallIds :
        /\ i < j
        /\ calls[i].op = "reset" /\ calls[j].op = "reset"
        /\ calls[i].reset_token = calls[j].reset_token
        /\ calls[i].pc = "done" /\ calls[i].status = 200
        /\ calls[j].pc = "done" /\ calls[j].status = 400
        /\ calls[j].code = "INVALID_RESET_TOKEN"

\* C27: a PATCH request to /tasks/reorder is handled by the reorder handler and a DELETE
\* request to /tasks/bulk-delete by the bulk-delete handler, never by the single-task
\* update or delete handler with "reorder" or "bulk-delete" taken as a task id.
C27_RouteDispatch ==
    [][ RequestStep =>
          /\ IsReorderReq(last') => last'.handler = "reorder"
          /\ IsBulkDeleteReq(last') => last'.handler = "bulkDelete" ]_vars

\* Both requests always run the single-task handler of their method.
CollectionRoutesShadowed ==
    [][ RequestStep =>
          /\ IsReorderReq(last') =>
                (last'.handler = "updateTask" /\ last'.status = 404 /\ tasks' = tasks)
          /\ IsBulkDeleteReq(last') =>
                (last'.handler = "deleteTask" /\ last'.status = 404 /\ tasks' = tasks) ]_vars

\* a reorder request of the caller's own two tasks was answered 404 by the update handler
ReorderHandledAsUpdate ==
    /\ IsReorderReq(last) /\ last.handler = "updateTask" /\ last.status = 404
    /\ last.user = "user_001" /\ last.body.order = <<"task_002", "task_001">>

\* the six single-task endpoints that look a task up by id and owner
IsOwnedResourceReq(l) ==
    /\ l.user \in Users
    /\ l.handler \in {"getTask", "updateTask", "deleteTask", "duplicateTask",
                      "toggleStatus", "shareTask"}

\* the answer of such an endpoint to a request for an id that is no task at all: it
\* depends on the request alone
AnswerWhenAbsent(l) ==
    IF l.handler = "toggleStatus" /\ ~NamesToggleTarget(l.body)
    THEN [status |-> 400, res |-> Err("INVALID_STATUS")]
    ELSE [status |-> 404, res |-> Err("TASK_NOT_FOUND")]

\* C23: for get, update, delete, duplicate, toggle-status and share called by user A with
\* task id X, the answer when X is a task of another user is the answer given when no
\* task X exists (the same status and the same body), and no task changes.
C23_NoExistenceLeak ==
    [][ (/\ RequestStep
         /\ IsOwnedResourceReq(last')
         /\ LET id == last'.path[2]
            IN id \notin Ids \/ tasks[id].user_id # last'.user)
        => /\ last'.status = AnswerWhenAbsent(last').status
           /\ last'.res = AnswerWhenAbsent(last').res
           /\ tasks' = tasks ]_vars

\* C23 witness: a share request for a task of another user was answered 404
\* TASK_NOT_FOUND while that task exists.
C23_Witness ==
    /\ IsOwnedResourceReq(last) /\ last.handler = "shareTask"
    /\ last.path[2] \in Ids /\ tasks[last.path[2]].user_id # last.user
    /\ last.status = 404 /\ last.res = Err("TASK_NOT_FOUND")

\* the same six requests for an id that is no task are in the behaviours too
AbsentTaskRequested ==
    /\ IsOwnedResourceReq(last) /\ last.handler = "shareTask"
    /\ last.path[2] \notin Ids
    /\ last.status = 404 /\ last.res = Err("TASK_NOT_FOUND")


\* ------------------------------------------------------------------------ C22
\* the credential is the second word of the Authorization header; it is bad when there
\* is none, when it is no token of ours, when it has expired, or when the user it names
\* is not in the users table
CredentialMissing(header) == Len(header) < 2

CredentialBad(header) ==
    \/ CredentialMissing(header)
    \/ DOMAIN header[2] # {"user_id", "exp", "signed"}
    \/ ~header[2].signed
    \/ header[2].exp <= now
    \/ header[2].user_id \notin DOMAIN users

IsRefusal(l) ==
    /\ l.handler = "authenticateToken"
    /\ l.res \in {Err("AUTH_TOKEN_MISSING"), Err("AUTH_TOKEN_INVALID"),
                  Err("AUTH_USER_NOT_FOUND")}

\* C22: on every route registered with authenticateToken, a request without a credential
\* is answered 401, and a request whose credential is missing, invalid, expired or names
\* no user is answered by the middleware with an error body (401 or 403): no handler
\* runs, no task or user row is in the answer, and tasks and users stay as they were.
C22_GateRefuses ==
    [][ \A header \in Headers, r \in GateRequests :
          (/\ RequestStep
           /\ last'.method = r.method /\ last'.path = r.path
           /\ DispatchAll(r.method, r.path) \notin OpenHandlers
           /\ GatedRequest(header, r.method, r.path, r.body))
          => /\ CredentialMissing(header) => last'.status = 401
             /\ CredentialBad(header) =>
                   /\ last'.status \in {401, 403}
                   /\ IsRefusal(last')
                   /\ tasks' = tasks /\ users' = users /\ issued' = issued ]_vars

\* a delete of an existing task with the token of a user that is not in the table
C22_Witness ==
    /\ last.method = "DELETE" /\ last.path = <<"tasks", "task_001">>
    /\ last.handler = "authenticateToken"
    /\ last.status = 401 /\ last.res = Err("AUTH_USER_NOT_FOUND")
    /\ "task_001" \in Ids

\* the same delete with a good token runs the handler
GoodCredentialReachesHandler ==
    /\ last.method = "DELETE" /\ last.path = <<"tasks", "task_001">>
    /\ last.handler = "deleteTask" /\ last.status = 200
    /\ "task_001" \notin Ids

\* an expired token is answered 403, a missing one 401
ExpiredAnswered403 ==
    /\ last.handler = "authenticateToken" /\ last.status = 403
    /\ last.path = <<"users", "me">>


\* ------------------------------------------------------------------------ C21
EmailsUniqueIgnoringCase ==
    \A u, v \in DOMAIN users : u # v => Lower(users[u].email) # Lower(users[v].email)

\* call i gets its response in this step
AnsweredNow(i) ==
    /\ i \in 1..Len(calls') /\ calls'[i].pc = "done"
    /\ i \in CallIds => calls[i].pc # "done"

MatchesExistingEmail(email) ==
    \E u \in DOMAIN users : Lower(users[u].email) = Lower(Trim(email))

\* C21: no two users ever have emails that are equal ignoring case, and a register
\* request that is answered while a user with its email (in any letter case) exists is
\* answered 400 and adds no user.
C21_UniqueEmails ==
    /\ EmailsUniqueIgnoringCase
    /\ [][ /\ EmailsUniqueIgnoringCase'
           /\ \A i \in 1..Len(calls') :
                 (/\ AnsweredNow(i)
                  /\ calls'[i].op = "register"
                  /\ MatchesExistingEmail(calls'[i].email))
                 => calls'[i].status = 400 /\ users' = users ]_vars

\* the first half holds under every interleaving
EmailsStayUnique == EmailsUniqueIgnoringCase

\* two requests for one new email, both past the SELECT: the second INSERT is answered 500
RaceLoserAnswered500 ==
    \E i, j \in CallIds :
        /\ calls[i].op = "register" /\ calls[i].status = 201
        /\ calls[j].op = "register" /\ calls[j].status = 500
        /\ Lower(Trim(calls[i].email)) = Lower(Trim(calls[j].email))

\* an email in another letter case than the stored one is answered 400
OtherCaseRejected ==
    \E i \in CallIds :
        /\ calls[i].op = "register" /\ calls[i].code = "USER_ALREADY_EXISTS"
        /\ Trim(calls[i].email) \notin {users[u].email : u \in DOMAIN users}


\* ------------------------------------------------------------------------ C26
IsAppend(c) == c.op \in {"create", "duplicate"} /\ c.status = 201

SeedMaxOrder(u) ==
    CHOOSE m \in {SeedTasks[id].order_index : id \in {t \in SeedIds : SeedTasks[t].user_id = u}} :
        \A id \in {t \in SeedIds : SeedTasks[t].user_id = u} : SeedTasks[id].order_index <= m

\* C26: when two create-without-order_index or duplicate requests of one user have run
\* together, however their reads of the maximum and their inserts interleave, the two new
\* tasks have different order_index values and each is greater than every order_index the
\* user's tasks had before.
C26_ConcurrentAppend ==
    \A i, j \in CallIds :
        (/\ Len(calls) = 2 /\ i < j
         /\ IsAppend(calls[i]) /\ IsAppend(calls[j])
         /\ calls[i].user = calls[j].user)
        => /\ tasks[calls[i].task_id].order_index # tasks[calls[j].task_id].order_index
           /\ tasks[calls[i].task_id].order_index > SeedMaxOrder(calls[i].user)
           /\ tasks[calls[j].task_id].order_index > SeedMaxOrder(calls[i].user)

\* a create and a duplicate of one user that both read the maximum before either inserted
TwoAppendsShareOrderIndex ==
    /\ Len(calls) = 2
    /\ calls[1].op = "create" /\ calls[2].op = "duplicate"
    /\ IsAppend(calls[1]) /\ IsAppend(calls[2])
    /\ tasks[calls[1].task_id].order_index = tasks[calls[2].task_id].order_index

\* ------------------------------------------------------------------------ C25
\* the order_index values a reorder request asks for: position i - 1 for order[i]
RequestedBy(order) == [k \in Range(order) |-> (CHOOSE p \in 1..Len(order) : order[p] = k) - 1]

AssignmentOf(u) == [id \in Owned(u) |-> tasks[id].order_index]

IsFullPermutation(u, order) ==
    /\ Range(order) = Owned(u)
    /\ Len(order) = Cardinality(Owned(u))

\* C25: when two reorder requests of one user, each a permutation of all the user's
\* tasks, have both been answered, the user's order_index assignment is the one that
\* one of the two asked for.
C25_ConcurrentReorder ==
    \A i, j \in CallIds :
        (/\ Len(calls) = 2 /\ i < j
         /\ calls[i].op = "reorder" /\ calls[j].op = "reorder"
         /\ calls[i].pc = "done" /\ calls[j].pc = "done"
         /\ calls[i].user = calls[j].user
         /\ IsFullPermutation(calls[i].user, calls[i].body.order)
         /\ IsFullPermutation(calls[j].user, calls[j].body.order))
        => \/ AssignmentOf(calls[i].user) = RequestedBy(calls[i].body.order)
           \/ AssignmentOf(calls[i].user) = RequestedBy(calls[j].body.order)

\* both requests were answered 404 and the assignment is the seeded one
TwoReordersChangeNothing ==
    /\ Len(calls) = 2
    /\ calls[1].op = "reorder" /\ calls[2].op = "reorder"
    /\ calls[1].user = "user_001" /\ calls[2].user = "user_001"
    /\ calls[1].body.order # calls[2].body.order
    /\ calls[1].status = 404 /\ calls[2].status = 404
    /\ AssignmentOf("user_001") = [id \in {"task_001", "task_002"} |-> SeedTasks[id].order_index]

\* no reorder request is ever answered by the reorder handler
ReorderNeverApplied ==
    \A i \in CallIds : calls[i].op = "reorder" => calls[i].code = "TASK_NOT_FOUND"


\* ------------------------------------------------------------------------ C28
Unauthenticated(s) ==
    ~s.is_authenticated /\ s.auth_token = Null /\ s.current_user = NullUser

\* C28: from the moment logout_user has completed until a login_user, register_user or
\* reset_password succeeds, the store is unauthenticated: is_authenticated is false and
\* auth_token and current_user are null.
C28_LogoutIsFinal == client.logged_out => Unauthenticated(client.store)

\* the response of an initialize_auth that began before the logout arrives after it
LateInitializeAuthSignsIn ==
    /\ client.logged_out
    /\ client.store.is_authenticated
    /\ client.store.auth_token # Null
    /\ client.inflight = <<>>

\* nothing but the success branch of initialize_auth signs in after a logout
OnlyInitializeAuthUndoesLogout ==
    [][ (/\ client.logged_out => Unauthenticated(client.store)
         /\ client'.logged_out /\ ~Unauthenticated(client'.store))
        => \E i \in InflightIds : InitializeAuthResponse(i, TRUE) ]_vars

\* ------------------------------------------------------------------------ C29
\* an action of the store finishes in this step
ActionFinishes ==
    \/ Len(client'.inflight) < Len(client.inflight)
    \/ InitializeAuth /\ Store.auth_token = Null
    \/ LogoutUser /\ Store.auth_token = Null

\* C29: in every state of the store is_authenticated implies that auth_token and
\* current_user are not null, and whenever an auth action finishes, by success or by
\* failure, is_loading is false.
C29_AuthStoreInvariant ==
    /\ client.store.is_authenticated =>
          client.store.auth_token # Null /\ client.store.current_user # NullUser
    /\ [][ /\ client'.store.is_authenticated =>
                 client'.store.auth_token # Null /\ client'.store.current_user # NullUser
           /\ ActionFinishes => ~client'.store.is_loading ]_vars

\* a register that fails while the user is signed in
C29_Witness ==
    /\ client.store.error_message = "Registration failed"
    /\ client.store.auth_token # Null /\ client.store.current_user # NullUser
    /\ ~client.store.is_authenticated /\ ~client.store.is_loading
    /\ client.inflight = <<>>

\* signed in by initialize_auth
SignedInByInitializeAuth ==
    /\ client.store.is_authenticated
    /\ "user" \in DOMAIN client.store.current_user


\* ------------------------------------------------------------------------ C24
AddOrDuplicatePressed ==
    \/ \E title \in {GuestTitle, <<>>} : AddTask(title)
    \/ \E id \in GuestTaskIds : GuestDuplicateTask(id)

\* C24: the guest list never holds more than 5 tasks, whatever the guest adds,
\* duplicates, edits, toggles, deletes, bulk-deletes and drags and whenever the timers of
\* add and edit fire; and an add or duplicate pressed while the list holds 5 tasks leaves
\* the list as it is and schedules no task.
C24_GuestCap ==
    /\ Len(guest.tasks_list) <= GuestLimit
    /\ [][ /\ Len(guest'.tasks_list) <= GuestLimit
           /\ (Len(guest.tasks_list) = GuestLimit /\ AddOrDuplicatePressed)
              => /\ guest'.tasks_list = guest.tasks_list
                 /\ guest'.pending = NoPending ]_vars

\* an add or duplicate was refused with five tasks in the list
C24_Witness ==
    /\ Len(guest.tasks_list) = GuestLimit
    /\ guest.limit_modal_open
    /\ guest.pending = NoPending

\* the fifth task came in by the timer of an add
FifthTaskAddedAfterDelay ==
    /\ Len(guest.tasks_list) = GuestLimit
    /\ guest.tasks_list[GuestLimit].title = GuestTitle
    /\ guest.tasks_list[GuestLimit].order_index = GuestLimit - 1

\* ------------------------------------------------------------------------ C30
GuestStatusOf(g, id) ==
    g.tasks_list[CHOOSE k \in 1..Len(g.tasks_list) : g.tasks_list[k].task_id = id].status

IdsOf(g) == {g.tasks_list[k].task_id : k \in 1..Len(g.tasks_list)}

BulkConfirmAlwaysDeletes ==
    [][ (guest.chosen \in {"bulkComplete", "bulkDelete"} /\ GuestConfirm)
        => guest'.tasks_list = FilterTasks(guest.tasks_list, Selected) ]_vars

\* a confirm after bulk Delete or single Delete is the only other way out of the list
RemovedOnlyByConfirm ==
    [][ ~(IdsOf(guest) \subseteq IdsOf(guest')) => GuestConfirm ]_vars

====
